---- MODULE Spec2Model ----
(***************************************************************************)
(* A model of the three interactive charts of Homework3/alfranzen:         *)
(*   - stackedBarChart.js          drill-down navigation over type counts  *)
(*   - parallelCoordinatesPlot.js  type filter, focused record, image slot *)
(*   - ridgelinePlot.js            generation animation (play/pause/scrub) *)
(* and of the static ridgeline plot of src/unnamed/part_000 (click to      *)
(* zoom a ridge).                                                          *)
(* Each chart is a closure over its arguments and a handful of `let`       *)
(* variables; every handler is one action.  DOM content that a handler     *)
(* writes and that a later handler or the reader depends on (which rects   *)
(* and links exist, which paths are drawn and how they are styled, which   *)
(* <img> is attached) is part of the state.                                *)
(***************************************************************************)
EXTENDS Integers, Sequences, FiniteSets, TLC

(***************************************************************************)
(* Bounds of the model.                                                    *)
(***************************************************************************)
MaxNavRecords == 3

MaxPcpRecords == 2

MaxRidgeRecords == 3

(***************************************************************************)
(* JavaScript values.  null is a distinguished string; a type name is a    *)
(* non-empty string, hence truthy, and null is falsy.                      *)
(***************************************************************************)
Null == "null"

Truthy(v) == v # Null

(***************************************************************************)
(* Array helpers: Array.prototype.map / filter / find / sort and           *)
(* [...new Set(a)].                                                        *)
(***************************************************************************)
Range(s) == {s[i] : i \in 1..Len(s)}

\* [...new Set(s)]: first occurrences, in encounter order.
RECURSIVE Unique(_)
Unique(s) ==
    IF s = <<>> THEN <<>>
    ELSE LET r == Unique(SubSeq(s, 1, Len(s) - 1))
             x == s[Len(s)]
         IN IF x \in Range(r) THEN r ELSE Append(r, x)

\* Array.prototype.sort(Cmp), stable (ECMAScript 2019): an element goes after
\* every element that compares below it and after the earlier ones that
\* compare equal to it.
ArraySort(s, Cmp(_, _)) ==
    LET pos(i) == 1 + Cardinality({j \in 1..Len(s) :
                        /\ j # i
                        /\ \/ Cmp(s[j], s[i]) < 0
                           \/ Cmp(s[j], s[i]) = 0 /\ j < i})
    IN [k \in 1..Len(s) |-> s[CHOOSE i \in 1..Len(s) : pos(i) = k]]

CountWhere(s, P(_)) == Len(SelectSeq(s, P))

\* Position of x in s, 0 when absent.
IndexOf(s, x) ==
    IF x \in Range(s) THEN CHOOSE i \in 1..Len(s) : s[i] = x /\ \A j \in 1..(i - 1) : s[j] # x
    ELSE 0

(***************************************************************************)
(* The strings of the model, each list in code-unit (alphabetical) order,  *)
(* which is the order of localeCompare and d3.ascending on them.           *)
(***************************************************************************)
TypeNames == <<"Fire", "Ghost", "None", "total", "Water">>

NameList == <<"Abra", "Bulbasaur", "Charmander", "Ditto">>

\* a.localeCompare(b) for type names
LocaleCompare(a, b) == IndexOf(TypeNames, a) - IndexOf(TypeNames, b)

\* d3.ascending(a, b) for record names
Ascending(a, b) == IndexOf(NameList, a) - IndexOf(NameList, b)

(***************************************************************************)
(* Numbers as JavaScript sees them: a number, NaN, or undefined.           *)
(***************************************************************************)
Num(n) == [kind |-> "number", val |-> n]

NaNValue == [kind |-> "NaN", val |-> 0]

Undefined == [kind |-> "undefined", val |-> 0]

\* a numeric string, such as a CSV cell that was never converted
NumStr(n) == [kind |-> "string", val |-> n]

\* isNaN(x): true of NaN and of undefined (Number(undefined) is NaN), false of
\* a number and of a numeric string.
IsNaN(x) == x.kind \notin {"number", "string"}

\* String(x): the digits of a number or numeric string; "NaN" and "undefined"
\* are no digits and stay apart.
String(x) ==
    IF x.kind = "NaN" THEN [kind |-> "text NaN", val |-> 0]
    ELSE IF x.kind = "undefined" THEN [kind |-> "text undefined", val |-> 0]
    ELSE NumStr(x.val)

\* a - b of the numeric comparator (a, b) => a - b
Minus(a, b) == a.val - b.val

(***************************************************************************)
(* The dataset: an array of records, shared by the charts and passed to    *)
(* each as `data`.                                                         *)
(***************************************************************************)
dimensions == <<"HP", "Attack", "Defense", "Sp_Atk", "Sp_Def", "Speed">>

GoodStats == [dim \in Range(dimensions) |-> Num(50)]

Pokemon(name, t1, t2, stats, gen, total) ==
    [Name |-> name, Type_1 |-> t1, Type_2 |-> t2, Stats |-> stats,
     Generation |-> gen, Total |-> total]

VARIABLES
    data,       \* the dataset every chart was created with
    \* stackedBarChart.js
    bar,        \* arguments, closure variables and rendered view of the chart
    barEvent,   \* the last event the stacked bar chart handled
    \* parallelCoordinatesPlot.js
    checked,            \* the values of the checked type checkboxes
    selectedPokemon,    \* let selectedPokemon: <<>> for null, <<d>> for a record
    paths,              \* the .pokemon-path elements of the svg: datum and style
    pokemonInfoWrapper, \* the modal: its display and its content
    overlay,            \* the overlay's display
    lookups,            \* the d3.json requests awaited by click handlers
    pcpEvent,           \* the last event the parallel coordinates plot handled
    \* ridgelinePlot.js
    slider,                          \* the range input's value
    playButton,                      \* the button's text
    animationTimer,                  \* let animationTimer: 0 for null, else the interval
    isPlaying,                       \* let isPlaying
    currentAnimationGenerationIndex, \* let currentAnimationGenerationIndex
    shown,                           \* what updateToGeneration drew last
    intervals,                       \* the d3.interval timers that are running
    ridgeEvent,                      \* the last event the ridgeline plot handled
    playedFrom,                      \* the step the last playAnimation() drew, -1 before any
    ticks,                           \* the interval callbacks run since the last playAnimation()
    \* the static ridgeline plot (src/unnamed/part_000)
    ridgeGroups,    \* the g.ridge elements: datum, path and display
    yAxis,          \* the y axis: its label and the density the last click scaled it by
    showAllLink,    \* the display of the "Show All Plots" link
    staticEvent     \* the last event the static ridgeline plot handled

barVars == <<bar, barEvent>>

pcpVars == <<checked, selectedPokemon, paths, pokemonInfoWrapper, overlay, lookups, pcpEvent>>

ridgeVars == <<slider, playButton, animationTimer, isPlaying,
               currentAnimationGenerationIndex, shown, intervals, ridgeEvent,
               playedFrom, ticks>>

staticVars == <<ridgeGroups, yAxis, showAllLink, staticEvent>>

vars == <<data, barVars, pcpVars, ridgeVars, staticVars>>

(***************************************************************************)
(* stackedBarChart.js                                                      *)
(***************************************************************************)
\* the comparator of allSecondaryTypes: "None" first, the rest by localeCompare
SecondaryCmp(a, b) ==
    IF a = "None" THEN -1 ELSE IF b = "None" THEN 1 ELSE LocaleCompare(a, b)

\* allSecondaryTypes sorted by name alone
allSecondaryTypesByName(d) ==
    ArraySort(Unique([i \in 1..Len(d) |-> d[i].Type_2]), LocaleCompare)

\* [...new Set(data.map(d => d.Type_2))].sort(...)
allSecondaryTypes(d) ==
    ArraySort(Unique([i \in 1..Len(d) |-> d[i].Type_2]), SecondaryCmp)

\* countsByTypeFull with the total taken over the leaves that have a
\* secondary type other than "None"
countsByTypeFullTotalOfTyped(d) ==
    LET keys == Unique([i \in 1..Len(d) |-> d[i].Type_1])
        secs == Range(allSecondaryTypes(d))
        leaves(k) == SelectSeq(d, LAMBDA r : r.Type_1 = k)
        IsSec(r, sec) == r.Type_2 = sec
    IN [i \in 1..Len(keys) |->
          [primaryType |-> keys[i],
           counts |-> [sec \in secs |->
                         CountWhere(leaves(keys[i]), LAMBDA r : IsSec(r, sec))],
           total |-> CountWhere(leaves(keys[i]), LAMBDA r : r.Type_2 # "None")]]

\* the property of the counts object that holds the group's total
TotalKey == "total"

\* d3.rollup(data, leaves => counts, d => d.Type_1): one entry per primary
\* type in encounter order, holding a count per secondary type and a total.
\* The counts and the total are properties of one object: counts.total is
\* assigned last, so the property of a secondary type named "total" reads
\* leaves.length whatever was counted into it.
countsByTypeFull(d) ==
    LET keys == Unique([i \in 1..Len(d) |-> d[i].Type_1])
        secs == Range(allSecondaryTypes(d))
        leaves(k) == SelectSeq(d, LAMBDA r : r.Type_1 = k)
        IsSec(r, sec) == r.Type_2 = sec
    IN [i \in 1..Len(keys) |->
          [primaryType |-> keys[i],
           counts |-> [sec \in secs |->
                         IF sec = TotalKey THEN Len(leaves(keys[i]))
                         ELSE CountWhere(leaves(keys[i]), LAMBDA r : IsSec(r, sec))],
           total |-> Len(leaves(keys[i]))]]

\* TotalDescending breaking ties by the name of the primary type
TotalDescendingThenName(a, b) ==
    IF b.total # a.total THEN b.total - a.total
    ELSE LocaleCompare(a.primaryType, b.primaryType)

\* the comparator of baseSortedCountsArray
TotalDescending(a, b) == b.total - a.total

baseSortedCountsArray(d) == ArraySort(countsByTypeFull(d), TotalDescending)

OverviewTitle == <<"Pokemon Distribution by Primary & Secondary Type">>

chartTitleText(p, s) ==
    IF Truthy(p) /\ ~Truthy(s) THEN <<p, "Pokemon: Distribution by Secondary Type">>
    ELSE IF Truthy(p) /\ Truthy(s) THEN <<p, "/", s, "Pokemon">>
    ELSE OverviewTitle

\* NavLinks without the detail view's "Back" link
NavLinksNoBack(p, s) == IF Truthy(p) THEN {"showAll"} ELSE {}

\* The navigation links the call appends: "Show All Types" whenever a primary
\* filter was passed, "Back to <p> View" in the detail view.
NavLinks(p, s) ==
    (IF Truthy(p) THEN {"showAll"} ELSE {})
      \cup (IF Truthy(p) /\ Truthy(s) THEN {"back"} ELSE {})

NameAscending(a, b) == Ascending(a.Name, b.Name)

\* specificPokemon matching the primary type alone
specificPokemonOfPrimary(d, p, s) == SelectSeq(d, LAMBDA r : r.Type_1 = p)

\* data.filter(p => p.Type_1 === p1 && p.Type_2 === s1), a new array
specificPokemon(d, p, s) == SelectSeq(d, LAMBDA r : r.Type_1 = p /\ r.Type_2 = s)

\* base.find(d => d.primaryType === p), base being baseSortedCountsArray:
\* <<>> stands for undefined
filteredData(base, p) == SelectSeq(base, LAMBDA g : g.primaryType = p)

\* currentSortedCountsArray with the primary filter not applied
currentSortedCountsArrayUnfiltered(base, p) == base

\* the groups the bar view stacks
currentSortedCountsArray(base, p) ==
    IF Truthy(p)
    THEN IF filteredData(base, p) # <<>> THEN <<filteredData(base, p)[1]>>
         ELSE base
    ELSE base

\* the bar view's fallback branch is taken: a primary filter no group has
FilterFallback(base, p, s) ==
    ~(Truthy(p) /\ Truthy(s)) /\ Truthy(p) /\ filteredData(base, p) = <<>>

\* the value of the closure variable effectiveFilterPrimaryType once the
\* call returns: reset only in the bar view's fallback branch
effectiveFilterPrimaryType(base, p, s) ==
    IF FilterFallback(base, p, s) THEN Null ELSE p

\* the rects the bar view appends, each with the click handler: one per layer
\* (secondary type) and displayed group; a zero count gives a zero-width rect
BarRects(groups, secs, p, s) ==
    IF Truthy(p) /\ Truthy(s) THEN {}
    ELSE IF groups = <<>> \/ secs = <<>> THEN {}
    ELSE {[primaryType |-> groups[i].primaryType, key |-> k] :
            i \in 1..Len(groups), k \in Range(secs)}

\* createStackedBarChart(data, containerId, p, s): the container is cleared
\* and everything below is rebuilt from the arguments.
createStackedBarChart(d, p, s) ==
    LET base == baseSortedCountsArray(d)
        secs == allSecondaryTypes(d)
        detail == Truthy(p) /\ Truthy(s)
        groups == IF detail THEN <<>> ELSE currentSortedCountsArray(base, p)
    IN [activeFilterPrimaryType |-> p,
        activeFilterSecondaryType |-> s,
        effectiveFilterPrimaryType |-> effectiveFilterPrimaryType(base, p, s),
        title |-> chartTitleText(p, s),
        links |-> NavLinks(p, s),
        view |-> IF detail THEN "list" ELSE "bars",
        list |-> IF detail THEN ArraySort(specificPokemon(d, p, s), NameAscending)
                 ELSE <<>>,
        groups |-> groups,
        legend |-> IF detail THEN <<>> ELSE secs,
        rects |-> BarRects(groups, secs, p, s),
        warned |-> FilterFallback(base, p, s)]

\* The drill-down level a chart is at, as its code branches on it: the list
\* view when both filters are set, else a primary type's bars when the
\* effective primary filter is set, else the overview.
NavLevel(b) ==
    IF Truthy(b.activeFilterPrimaryType) /\ Truthy(b.activeFilterSecondaryType)
    THEN <<"DetailList", b.activeFilterPrimaryType, b.activeFilterSecondaryType>>
    ELSE IF Truthy(b.effectiveFilterPrimaryType)
    THEN <<"PrimaryFiltered", b.effectiveFilterPrimaryType>>
    ELSE <<"Overview">>

\* RectClickHandler doing nothing whenever a secondary filter was passed
RectClickHandlerSecondaryFirst(b, d, r) ==
    IF Truthy(b.activeFilterSecondaryType) THEN b
    ELSE IF ~Truthy(b.effectiveFilterPrimaryType)
    THEN createStackedBarChart(d, r.primaryType, Null)
    ELSE IF b.effectiveFilterPrimaryType = r.primaryType
    THEN createStackedBarChart(d, r.primaryType, r.key)
    ELSE b

\* RectClickHandler testing the filter passed to the call instead of the
\* effective one
RectClickHandlerOnPassedFilter(b, d, r) ==
    IF ~Truthy(b.activeFilterPrimaryType)
    THEN createStackedBarChart(d, r.primaryType, Null)
    ELSE IF b.activeFilterPrimaryType = r.primaryType
            /\ ~Truthy(b.activeFilterSecondaryType)
    THEN createStackedBarChart(d, r.primaryType, r.key)
    ELSE b

\* RectClickHandler opening the list of the clicked segment from the overview
RectClickHandlerStraightToList(b, d, r) ==
    IF ~Truthy(b.activeFilterSecondaryType)
    THEN createStackedBarChart(d, r.primaryType, r.key)
    ELSE b

\* rect.on("click"): drill down from the overview to the clicked primary type,
\* from a primary type's view to the list of one of its secondary types;
\* nothing otherwise.
RectClickHandler(b, d, r) ==
    IF ~Truthy(b.effectiveFilterPrimaryType)
    THEN createStackedBarChart(d, r.primaryType, Null)
    ELSE IF b.effectiveFilterPrimaryType = r.primaryType
            /\ ~Truthy(b.activeFilterSecondaryType)
    THEN createStackedBarChart(d, r.primaryType, r.key)
    ELSE b

\* showAllLink.on("click")
ShowAllHandler(b, d) == createStackedBarChart(d, Null, Null)

\* back-to-primary-link.on("click")
BackHandler(b, d) == createStackedBarChart(d, b.activeFilterPrimaryType, Null)

\* The arrays a call of createStackedBarChart holds, by the name it knows
\* them by: data is the caller's array and data.filter(...) is a new one.
RenderArrays(d, p, s) == [data |-> d, specificPokemon |-> specificPokemon(d, p, s)]

\* array.sort(compare) with the comparison of names: sorts the array it is
\* called on, in place
SortByNameInPlace(arrays, receiver) ==
    [arrays EXCEPT ![receiver] = ArraySort(@, NameAscending)]

\* a sort called on the caller's array
SortReceiverData == "data"

\* the array the list view sorts: specificPokemon.sort(...)
SortReceiver == "specificPokemon"

\* The caller's array after createStackedBarChart(data, containerId, p, s):
\* the list view sorts an array unless it returned for having no record to
\* list; the bar view sorts arrays of type names and of groups only.
DataAfterRender(d, p, s) ==
    IF Truthy(p) /\ Truthy(s) /\ specificPokemon(d, p, s) # <<>>
    THEN SortByNameInPlace(RenderArrays(d, p, s), SortReceiver).data
    ELSE d

BarPrimaryTypes == {"Fire", "Water"}

BarSecondaryTypes == {"None", "Fire", "Water"}

\* what a caller of the exported function may pass as filters: null, a type
\* of the data, or a type no record has
BarPrimaryArgs == BarPrimaryTypes \cup {Null, "Ghost"}

BarSecondaryArgs == BarSecondaryTypes \cup {Null}

BarRecords ==
    {Pokemon(n, t1, t2, GoodStats, Num(1), Num(300)) :
        n \in {NameList[1], NameList[2]}, t1 \in BarPrimaryTypes, t2 \in BarSecondaryTypes}

BarDatasets == UNION {[1..n -> BarRecords] : n \in 0..MaxNavRecords}

\* a click on one of the rects of the bar view
RectClick ==
    \E r \in bar.rects :
        /\ bar' = RectClickHandler(bar, data, r)
        /\ barEvent' = <<"rect", r.primaryType, r.key>>
        /\ data' = DataAfterRender(data, bar'.activeFilterPrimaryType,
                                   bar'.activeFilterSecondaryType)
        /\ UNCHANGED <<staticVars, pcpVars, ridgeVars>>

\* a click on "Show All Types"
ShowAllClick ==
    /\ "showAll" \in bar.links
    /\ bar' = ShowAllHandler(bar, data)
    /\ barEvent' = <<"showAll">>
    /\ data' = DataAfterRender(data, bar'.activeFilterPrimaryType,
                               bar'.activeFilterSecondaryType)
    /\ UNCHANGED <<staticVars, pcpVars, ridgeVars>>

\* a click on "Back to <p> View"
BackClick ==
    /\ "back" \in bar.links
    /\ bar' = BackHandler(bar, data)
    /\ barEvent' = <<"back">>
    /\ data' = DataAfterRender(data, bar'.activeFilterPrimaryType,
                               bar'.activeFilterSecondaryType)
    /\ UNCHANGED <<staticVars, pcpVars, ridgeVars>>

(***************************************************************************)
(* parallelCoordinatesPlot.js                                              *)
(***************************************************************************)
\* allValidPokemonData keeping every record
allValidPokemonDataUnchecked(d) == d

\* data.filter(d => dimensions.every(dim => d[dim] !== undefined && !isNaN(d[dim])))
allValidPokemonData(d) ==
    SelectSeq(d, LAMBDA r : \A dim \in Range(dimensions) :
                                r.Stats[dim] # Undefined /\ ~IsNaN(r.Stats[dim]))

\* [...new Set(allValidPokemonData.map(d => d.Type_1))], one checkbox each
primaryTypesForSelector(d) ==
    {allValidPokemonData(d)[i].Type_1 : i \in 1..Len(allValidPokemonData(d))}

\* the style updateLineStyles gives the path of datum d
LineStyle(sel, d) ==
    [width |-> IF sel # <<>> /\ d.Name = sel[1].Name THEN "3.5" ELSE "2",
     opacity |-> IF sel = <<>> \/ d.Name = sel[1].Name
                 THEN (IF sel # <<>> THEN "1" ELSE "0.5")
                 ELSE "0.05"]

\* updateLineStyles(): restyle every path of the current svg from selectedPokemon
updateLineStyles(ps, sel) ==
    [i \in 1..Len(ps) |-> [d |-> ps[i].d, style |-> LineStyle(sel, ps[i].d)]]

\* drawPcpChart(plotData): the svg is rebuilt with one path per record, and
\* updateLineStyles() runs last
drawPcpChart(plotData, sel) ==
    updateLineStyles([i \in 1..Len(plotData) |-> [d |-> plotData[i], style |-> <<>>]], sel)

\* dataToPlot with the checked types not applied
dataToPlotUnfiltered(d, chk) == allValidPokemonData(d)

\* updatePlot's filter of the valid records by the checked types
dataToPlot(d, chk) == SelectSeq(allValidPokemonData(d), LAMBDA r : r.Type_1 \in chk)

\* SelectionFilteredOut never finding the selection filtered out
SelectionNeverFilteredOut(plotData, sel) == FALSE

\* updatePlot's test: a record is selected and none of dataToPlot has its Name
SelectionFilteredOut(plotData, sel) ==
    sel # <<>> /\ ~\E i \in 1..Len(plotData) : plotData[i].Name = sel[1].Name

HiddenModal == [display |-> "none", html |-> <<>>]

\* pokemonInfoWrapper.html("") removes the <img> a pending lookup will write to
Detach(ls) == {[name |-> l.name, attached |-> FALSE] : l \in ls}

\* updatePlot(), the checkboxes being chk
UpdatePlot(chk) ==
    LET plotData == dataToPlot(data, chk)
        out == SelectionFilteredOut(plotData, selectedPokemon)
    IN /\ checked' = chk
       /\ selectedPokemon' = IF out THEN <<>> ELSE selectedPokemon
       /\ pokemonInfoWrapper' = IF out THEN HiddenModal ELSE pokemonInfoWrapper
       /\ overlay' = IF out THEN "none" ELSE overlay
       /\ lookups' = IF out THEN Detach(lookups) ELSE lookups
       /\ paths' = drawPcpChart(plotData, selectedPokemon')

\* createParallelCoordinatesPlot(data, containerId): every checkbox checked,
\* nothing selected, the first updatePlot() done.  Without a valid record the
\* function returns before it creates the controls.
InitPcp ==
    /\ checked = primaryTypesForSelector(data)
    /\ selectedPokemon = <<>>
    /\ pokemonInfoWrapper = HiddenModal
    /\ overlay = "none"
    /\ lookups = {}
    /\ paths = drawPcpChart(dataToPlot(data, primaryTypesForSelector(data)), <<>>)
    /\ pcpEvent = "create"

\* "Select All"
SelectAllClick ==
    /\ allValidPokemonData(data) # <<>>
    /\ UpdatePlot(primaryTypesForSelector(data))
    /\ pcpEvent' = "selectAll"
    /\ UNCHANGED <<data, staticVars, barVars, ridgeVars>>

\* "Deselect All"
DeselectAllClick ==
    /\ allValidPokemonData(data) # <<>>
    /\ UpdatePlot({})
    /\ pcpEvent' = "deselectAll"
    /\ UNCHANGED <<data, staticVars, barVars, ridgeVars>>

\* a type's checkbox changes
CheckboxChange ==
    \E type \in primaryTypesForSelector(data) :
        /\ UpdatePlot(IF type \in checked THEN checked \ {type} ELSE checked \cup {type})
        /\ pcpEvent' = "checkbox"
        /\ UNCHANGED <<data, staticVars, barVars, ridgeVars>>

\* The image slot of the modal built for record d, showing src
ModalFor(d, src) == [display |-> "block", html |-> <<[name |-> d.Name, img |-> src]>>]

\* paths.on("click"), up to its await: the record is selected and the modal
\* rebuilt and shown with the loading image; the request is sent; the line
\* styles are left for the code after the await.
PathClick ==
    \E i \in 1..Len(paths) :
        /\ selectedPokemon' = <<paths[i].d>>
        /\ pokemonInfoWrapper' = ModalFor(paths[i].d, <<"Loading">>)
        /\ overlay' = "block"
        /\ lookups' = Detach(lookups) \cup {[name |-> paths[i].d.Name, attached |-> TRUE]}
        /\ pcpEvent' = "click"
        /\ UNCHANGED <<data, staticVars, barVars, ridgeVars, checked, paths>>

\* what a lookup can end in: the artwork or sprite of the name asked for, the
\* "N/A" placeholder when the response has neither, the "Error" placeholder
\* when the request or the reading of the response throws
LookupOutcomes(name) == {<<"sprite", name>>, <<"N/A", name>>, <<"Error", name>>}

\* SetImage leaving the loading image when the lookup failed
SetImageUnlessError(wrapper, l, src) ==
    IF l.attached /\ src[1] # "Error"
    THEN [wrapper EXCEPT !.html[1].img = src] ELSE wrapper

\* SetImage writing to whichever <img> the modal holds
SetImageInModal(wrapper, l, src) ==
    IF wrapper.html # <<>> THEN [wrapper EXCEPT !.html[1].img = src] ELSE wrapper

\* imgElement.attr("src", ...) of the handler that sent lookup l: the <img> it
\* created, which is in the modal only while l is attached
SetImage(wrapper, l, src) ==
    IF l.attached THEN [wrapper EXCEPT !.html[1].img = src] ELSE wrapper

\* paths.on("click"), from its await on: the image is set and
\* updateLineStyles() called
LookupSettle ==
    \E l \in lookups : \E src \in LookupOutcomes(l.name) :
        /\ lookups' = lookups \ {l}
        /\ pokemonInfoWrapper' = SetImage(pokemonInfoWrapper, l, src)
        /\ paths' = updateLineStyles(paths, selectedPokemon)
        /\ pcpEvent' = "settle"
        /\ UNCHANGED <<data, staticVars, barVars, ridgeVars, checked, selectedPokemon, overlay>>

\* the closure variables and elements the handlers of the plot read and write
PcpState ==
    [selectedPokemon |-> selectedPokemon, pokemonInfoWrapper |-> pokemonInfoWrapper,
     overlay |-> overlay, lookups |-> lookups, paths |-> paths, checked |-> checked]

\* CloseHandler hiding the modal and leaving selectedPokemon as it is
CloseHandlerKeepsFocus(st) ==
    [st EXCEPT !.pokemonInfoWrapper = HiddenModal,
               !.overlay = "none",
               !.lookups = Detach(st.lookups),
               !.paths = updateLineStyles(st.paths, st.selectedPokemon)]

\* the body of closeButton.on("click"): selectedPokemon = null, the modal
\* hidden and emptied, the overlay hidden, updateLineStyles()
CloseHandler(st) ==
    [st EXCEPT !.selectedPokemon = <<>>,
               !.pokemonInfoWrapper = HiddenModal,
               !.overlay = "none",
               !.lookups = Detach(st.lookups),
               !.paths = updateLineStyles(st.paths, <<>>)]

\* closeButton.on("click"): the button is in the modal a click built
CloseClick ==
    /\ pokemonInfoWrapper.display = "block"
    /\ selectedPokemon' = CloseHandler(PcpState).selectedPokemon
    /\ pokemonInfoWrapper' = CloseHandler(PcpState).pokemonInfoWrapper
    /\ overlay' = CloseHandler(PcpState).overlay
    /\ lookups' = CloseHandler(PcpState).lookups
    /\ paths' = CloseHandler(PcpState).paths
    /\ checked' = CloseHandler(PcpState).checked
    /\ pcpEvent' = "close"
    /\ UNCHANGED <<data, staticVars, barVars, ridgeVars>>

\* paths.on("mouseover"): unless the path is the selected one, it is raised
\* and every other path but the selected one is faded
MouseOver ==
    \E i \in 1..Len(paths) :
        /\ ~(selectedPokemon # <<>> /\ paths[i].d.Name = selectedPokemon[1].Name)
        /\ paths' = [j \in 1..Len(paths) |->
              IF j = i THEN [paths[j] EXCEPT !.style = [width |-> "4", opacity |-> "1"]]
              ELSE IF selectedPokemon = <<>> \/ paths[j].d.Name # selectedPokemon[1].Name
              THEN [paths[j] EXCEPT !.style.opacity = "0.02"]
              ELSE paths[j]]
        /\ pcpEvent' = "mouseover"
        /\ UNCHANGED <<data, staticVars, barVars, ridgeVars, checked, selectedPokemon, pokemonInfoWrapper,
                       overlay, lookups>>

\* paths.on("mouseout")
MouseOut ==
    /\ paths # <<>>
    /\ paths' = updateLineStyles(paths, selectedPokemon)
    /\ pcpEvent' = "mouseout"
    /\ UNCHANGED <<data, staticVars, barVars, ridgeVars, checked, selectedPokemon, pokemonInfoWrapper,
                   overlay, lookups>>

(***************************************************************************)
(* ridgelinePlot.js                                                        *)
(***************************************************************************)
\* [...new Set(data.map(d => d.Generation))].filter(g => !isNaN(g))
\*     .sort((a, b) => a - b).map(String)
generations(d) ==
    LET gens == ArraySort(SelectSeq(Unique([i \in 1..Len(d) |-> d[i].Generation]),
                                    LAMBDA g : ~IsNaN(g)), Minus)
    IN [i \in 1..Len(gens) |-> String(gens[i])]

\* one step per generation key that has a record with a numeric Total
dataByGenArray(d) ==
    LET gens == generations(d)
        genValues(genKey) ==
            SelectSeq(d, LAMBDA r : String(r.Generation) = genKey /\ ~IsNaN(r.Total))
    IN SelectSeq([i \in 1..Len(gens) |-> [key |-> gens[i], values |-> genValues(gens[i])]],
                 LAMBDA g : Len(g.values) > 0)

\* the sample updateToGeneration estimates the density of
genTotals(g) ==
    LET totals == [i \in 1..Len(g.values) |-> g.values[i].Total]
    IN SelectSeq(totals, LAMBDA v : ~IsNaN(v))

\* Grid values are fixed-point numbers: the integer n stands for n / Scale.
Scale == 10

\* d3.extent(data, d => d.Total): the least and the greatest Total that is a
\* number, <<>> for [undefined, undefined]
totalExtent(d) ==
    LET vals == {d[i].Total.val : i \in {j \in 1..Len(d) : ~IsNaN(d[j].Total)}}
    IN IF vals = {} THEN <<>>
       ELSE <<CHOOSE v \in vals : \A w \in vals : v <= w,
              CHOOSE v \in vals : \A w \in vals : w <= v>>

\* the powers of ten from 1 / Scale upwards
PowersOfTen == {1, 10, 100, 1000}

\* d3's tickIncrement(start, stop, count) for start < stop, as the distance
\* between two ticks: the power of ten at or below (stop - start) / count,
\* times 10, 5 or 2 when the quotient is at least sqrt(50), sqrt(10) or
\* sqrt(2) of it.  Defined for quotients of 1 / Scale and more.
tickIncrement(start, stop, count) ==
    LET span == stop - start
        power == CHOOSE q \in PowersOfTen : q * count <= span /\ span < 10 * q * count
        unit == count * power
        factor == IF span * span >= 50 * unit * unit THEN 10
                  ELSE IF span * span >= 10 * unit * unit THEN 5
                  ELSE IF span * span >= 2 * unit * unit THEN 2
                  ELSE 1
    IN factor * power

RECURSIVE NiceIterate(_, _, _, _)
\* the loop of scale.nice(): widen [start, stop] to multiples of the tick
\* increment until the increment repeats; <<>> when maxIter runs out
NiceIterate(start, stop, prestep, maxIter) ==
    IF maxIter = 0 THEN <<>>
    ELSE LET step == tickIncrement(start, stop, 10)
         IN IF step = prestep THEN <<start, stop>>
            ELSE NiceIterate((start \div step) * step,
                             ((stop + step - 1) \div step) * step, step, maxIter - 1)

\* d3.scaleLinear().domain(totalExtent).nice().domain(): a domain of one
\* point has no finite increment and stays as it is
NiceDomain(extent) ==
    LET start == extent[1] * Scale
        stop == extent[2] * Scale
    IN IF start = stop \/ NiceIterate(start, stop, 0, 10) = <<>> THEN <<start, stop>>
       ELSE NiceIterate(start, stop, 0, 10)

\* xScale.ticks(count): the multiples of the tick increment within the
\* domain, the one point of a domain of one point
Ticks(domain, count) ==
    IF domain[1] = domain[2] THEN <<domain[1]>>
    ELSE LET step == tickIncrement(domain[1], domain[2], count)
             i1 == (domain[1] + step - 1) \div step
             i2 == domain[2] \div step
         IN [i \in 1..(i2 - i1 + 1) |-> (i1 + i - 1) * step]

\* the grid of the animated chart: xScale.ticks(80)
AnimatedGrid(d) == Ticks(NiceDomain(totalExtent(d)), 80)

\* the bandwidth both charts pass to kernelEpanechnikov
Bandwidth == 20

\* Kernel values are fractions of the denominator 4 * k^3 (in fixed point);
\* the operators below compute their numerators.
KernelDenominator(k) == 4 * k * (k * Scale) * (k * Scale)

\* a kernel that is 0.75 * (1 - v * v) / k for every v
kernelEpanechnikovUnbounded(k, v) == 3 * ((k * Scale) * (k * Scale) - v * v)

\* kernelEpanechnikov(k)(v): Math.abs(v /= k) <= 1 ? 0.75 * (1 - v * v) / k : 0
kernelEpanechnikov(k, v) ==
    IF v * v <= (k * Scale) * (k * Scale)
    THEN 3 * ((k * Scale) * (k * Scale) - v * v)
    ELSE 0

RECURSIVE SumOfKernels(_, _, _)
\* the sum over the sample V of kernel(x - v)
SumOfKernels(k, x, V) ==
    IF V = <<>> THEN 0
    ELSE kernelEpanechnikov(k, x - Head(V).val * Scale) + SumOfKernels(k, x, Tail(V))

\* kernelDensityEstimator(kernel, X)(V): X.map(x => [x, d3.mean(V, v =>
\* kernel(x - v))]), the mean as the fraction num / den
kernelDensityEstimator(k, X, V) ==
    [i \in 1..Len(X) |->
        <<X[i], [num |-> SumOfKernels(k, X[i], V), den |-> Len(V) * KernelDenominator(k)]>>]

\* const kde = kernelDensityEstimator(kernelEpanechnikov(20), xScale.ticks(80))
kde(V) == kernelDensityEstimator(Bandwidth, AnimatedGrid(data), V)

\* DensityOf with a sequence of zeros for a sample of fewer than two values
DensityOrZeros(V) ==
    IF Len(V) >= 2 THEN kde(V)
    ELSE [i \in 1..Len(AnimatedGrid(data)) |-> <<AnimatedGrid(data)[i], [num |-> 0, den |-> 1]>>]

\* let density = []; if (genTotals.length >= 2) density = kde(genTotals)
DensityOf(V) == IF Len(V) >= 2 THEN kde(V) ELSE <<>>

NothingShown == [idx |-> -1, key |-> <<>>, sample |-> <<>>, density |-> "none", curve |-> <<>>]

\* what the chart shows when there is no step: the indicator reads "No data
\* to display." and the svg "No valid generation data."
NoDataShown ==
    [idx |-> -1, key |-> <<>>, sample |-> <<>>, density |-> "No valid generation data.",
     curve |-> <<>>]

\* ControlsCreated whatever the steps
ControlsAlwaysCreated(steps) == TRUE

\* the slider, the button and their handlers exist: with no step the function
\* hides the controls' container and returns before it creates them
ControlsCreated(steps) == steps # <<>>

\* updateToGeneration drawing nothing for a sample of fewer than two values
updateToGenerationSkipSmall(steps, view, generationIdx) ==
    IF generationIdx < 0 \/ generationIdx >= Len(steps) THEN view
    ELSE LET g == steps[generationIdx + 1]
         IN IF Len(genTotals(g)) < 2 THEN view
            ELSE [idx |-> generationIdx, key |-> <<g.key>>,
                  sample |-> genTotals(g), density |-> "kde", curve |-> kde(genTotals(g))]

\* updateToGeneration(generationIdx): nothing for an index out of range; else
\* the indicator names the generation and the area is redrawn from the
\* density of its sample, the empty array for fewer than two values; density
\* names the branch taken and curve is the array
updateToGeneration(steps, view, generationIdx) ==
    IF generationIdx < 0 \/ generationIdx >= Len(steps) THEN view
    ELSE LET g == steps[generationIdx + 1]
         IN [idx |-> generationIdx,
             key |-> <<g.key>>,
             sample |-> genTotals(g),
             density |-> IF Len(genTotals(g)) >= 2 THEN "kde" ELSE "empty",
             curve |-> DensityOf(genTotals(g))]

\* SliderValue taking any value as it is
SliderValueUnclamped(steps, v) == v

\* slider.property("value", v): a range input keeps its value within min..max
SliderValue(steps, v) ==
    IF v < 0 THEN 0 ELSE IF v > Len(steps) - 1 THEN Len(steps) - 1 ELSE v

\* PausedText reporting the end one step early
PausedTextOneEarly(steps, index) ==
    IF index >= Len(steps) - 1 /\ Len(steps) > 0 THEN "Replay" ELSE "Play Animation"

\* the text pauseAnimation leaves on the button
PausedText(steps, index) ==
    IF index >= Len(steps) /\ Len(steps) > 0 THEN "Replay" ELSE "Play Animation"

\* pauseAnimation() leaving the interval running
PauseAnimationKeepTimer(steps) ==
    /\ isPlaying' = FALSE
    /\ intervals' = intervals
    /\ animationTimer' = 0
    /\ playButton' = PausedText(steps, currentAnimationGenerationIndex)

\* pauseAnimation()
PauseAnimation(steps) ==
    /\ isPlaying' = FALSE
    /\ intervals' = intervals \ {animationTimer}
    /\ animationTimer' = 0
    /\ playButton' = PausedText(steps, currentAnimationGenerationIndex)

\* PlayStartIndex without the synchronisation with the slider
PlayStartIndexNoSync(steps, index, sliderValue) ==
    IF index >= Len(steps) THEN 0 ELSE index

\* the index playAnimation starts from: the slider's value when the index
\* differs from it, then 0 when the index is at or past the end
PlayStartIndex(steps, index, sliderValue) ==
    LET synced == IF index # sliderValue THEN sliderValue ELSE index
    IN IF synced >= Len(steps) THEN 0 ELSE synced

\* the slider after playAnimation's two tests (set to 0 only by the second)
PlayStartSlider(steps, index, sliderValue) ==
    LET synced == IF index # sliderValue THEN sliderValue ELSE index
    IN IF synced >= Len(steps) THEN SliderValue(steps, 0) ELSE sliderValue

\* a timer handle not in use
NewInterval == CHOOSE h \in 1..(Cardinality(intervals) + 1) : h \notin intervals

\* playAnimation(): the button reads "Pause", the index is synchronised,
\* runAnimationStep() runs at once (it draws the start step, or pauses when
\* the index is past the end), then the interval is started
PlayAnimation(steps) ==
    LET start == PlayStartIndex(steps, currentAnimationGenerationIndex, slider)
        startSlider == PlayStartSlider(steps, currentAnimationGenerationIndex, slider)
    IN IF steps = <<>>
       THEN UNCHANGED <<isPlaying, playButton, slider, shown, intervals, animationTimer,
                        currentAnimationGenerationIndex, playedFrom, ticks>>
       ELSE
       /\ IF start >= Len(steps)
          THEN /\ isPlaying' = FALSE
               /\ playButton' = PausedText(steps, start)
               /\ slider' = startSlider
               /\ shown' = shown
               /\ currentAnimationGenerationIndex' = start
          ELSE /\ isPlaying' = TRUE
               /\ playButton' = "Pause"
               /\ slider' = SliderValue(steps, start)
               /\ shown' = updateToGeneration(steps, shown, start)
               /\ currentAnimationGenerationIndex' = start + 1
       /\ animationTimer' = NewInterval
       /\ intervals' = intervals \cup {NewInterval}
       /\ playedFrom' = start
       /\ ticks' = 0

\* createRidgelinePlot(data, containerId): with no step the function returns
\* before it creates the slider, the button and their handlers
InitRidge ==
    /\ slider = 0
    /\ playButton = IF dataByGenArray(data) = <<>> THEN "none" ELSE "Play Animation"
    /\ animationTimer = 0
    /\ isPlaying = FALSE
    /\ currentAnimationGenerationIndex = 0
    /\ shown = IF dataByGenArray(data) = <<>> THEN NoDataShown
               ELSE updateToGeneration(dataByGenArray(data), NothingShown, 0)
    /\ intervals = {}
    /\ ridgeEvent = <<"create">>
    /\ playedFrom = -1
    /\ ticks = 0

\* PlayButtonClick calling playAnimation() whether or not it is playing
PlayButtonClickAlwaysPlays ==
    LET steps == dataByGenArray(data)
    IN /\ ControlsCreated(steps)
       /\ PlayAnimation(steps)
       /\ ridgeEvent' = <<"play">>
       /\ UNCHANGED <<data, staticVars, barVars, pcpVars>>

\* playButton.on("click")
PlayButtonClick ==
    LET steps == dataByGenArray(data)
    IN /\ ControlsCreated(steps)
       /\ \/ /\ isPlaying
             /\ PauseAnimation(steps)
             /\ ridgeEvent' = <<"pause">>
             /\ UNCHANGED <<slider, currentAnimationGenerationIndex, shown, playedFrom, ticks>>
          \/ /\ ~isPlaying
             /\ PlayAnimation(steps)
             /\ ridgeEvent' = <<"play">>
       /\ UNCHANGED <<data, staticVars, barVars, pcpVars>>

\* the positions a user may try to move the slider to: any step, and one
\* position before the first and after the last
ScrubRequests(steps) == -1..Len(steps)

\* slider.on("input"): the user moves the slider towards position r; the range
\* input (min 0, max length - 1) holds the value v within its range and the
\* handler reads v from this.value.  The event records r and whether the
\* handler paused a running animation.
SliderInput ==
    LET steps == dataByGenArray(data)
    IN /\ ControlsCreated(steps)
       /\ \E r \in ScrubRequests(steps) :
            LET v == SliderValue(steps, r)
            IN /\ IF isPlaying THEN PauseAnimation(steps)
                  ELSE UNCHANGED <<isPlaying, intervals, animationTimer, playButton>>
               /\ slider' = v
               /\ currentAnimationGenerationIndex' = v
               /\ shown' = updateToGeneration(steps, shown, v)
               /\ ridgeEvent' = <<"scrub", r, isPlaying>>
               /\ UNCHANGED <<data, staticVars, barVars, pcpVars, playedFrom, ticks>>

\* AnimationAtEnd one step late
AnimationAtEndLate(steps, index) == index > Len(steps)

\* runAnimationStep's test: no step is left to draw
AnimationAtEnd(steps, index) == index >= Len(steps)

\* a running interval fires runAnimationStep(): past the last step it pauses,
\* else it moves the slider to the index, draws that step and advances
IntervalTick ==
    LET steps == dataByGenArray(data)
    IN \E h \in intervals :
        /\ \/ /\ AnimationAtEnd(steps, currentAnimationGenerationIndex)
              /\ PauseAnimation(steps)
              /\ UNCHANGED <<slider, currentAnimationGenerationIndex, shown>>
           \/ /\ ~AnimationAtEnd(steps, currentAnimationGenerationIndex)
              /\ slider' = SliderValue(steps, currentAnimationGenerationIndex)
              /\ shown' = updateToGeneration(steps, shown, currentAnimationGenerationIndex)
              /\ currentAnimationGenerationIndex' = currentAnimationGenerationIndex + 1
              /\ UNCHANGED <<isPlaying, intervals, animationTimer, playButton>>
        /\ ridgeEvent' = <<"tick">>
        /\ ticks' = ticks + 1
        /\ UNCHANGED <<data, staticVars, barVars, pcpVars, playedFrom>>

(***************************************************************************)
(* The static ridgeline plot (src/unnamed/part_000): one ridge per          *)
(* generation, a click zooms a ridge, a double click or the link resets.   *)
(***************************************************************************)
\* data.filter(d => !isNaN(d.Total) && d.Generation !== undefined &&
\*                  !isNaN(d.Generation)), the records d3.group groups
dataByGenRecords(d) ==
    SelectSeq(d, LAMBDA r : ~IsNaN(r.Total) /\ r.Generation.kind # "undefined"
                            /\ ~IsNaN(r.Generation))

\* dataByGen.get(genKey) || []
dataByGenGet(d, genKey) ==
    SelectSeq(dataByGenRecords(d), LAMBDA r : String(r.Generation) = genKey)

\* generations.map(genKey => ({key, values})).filter(d => d.values.length > 0)
ridgeDataByGenArray(d) ==
    LET gens == generations(d)
    IN SelectSeq([i \in 1..Len(gens) |->
                     [key |-> gens[i], values |-> dataByGenGet(d, gens[i])]],
                 LAMBDA g : Len(g.values) > 0)

\* the grid of the static chart: xScale.ticks(60)
RidgeGrid(d) == Ticks(NiceDomain(totalExtent(d)), 60)

\* const kde = kernelDensityEstimator(kernelEpanechnikov(20), xScale.ticks(60))
ridgeKde(V) == kernelDensityEstimator(Bandwidth, RidgeGrid(data), V)

\* d3.max(density, p => p[1]) > 0: the value fractions share one denominator
MaxDensityPositive(density) == \E i \in 1..Len(density) : density[i][2].num > 0

\* the .each callback of the ridges: no path for fewer than two totals or a
\* density that is nowhere positive, else a path of the density's points
RidgePath(g) ==
    IF Len(genTotals(g)) < 2 THEN <<>>
    ELSE IF ~MaxDensityPositive(ridgeKde(genTotals(g))) THEN <<>>
    ELSE <<ridgeKde(genTotals(g))>>

\* the click handler's let density = []; if (genTotals.length >= 2) density =
\* kde(genTotals)
ZoomDensity(V) == IF Len(V) >= 2 THEN ridgeKde(V) ELSE <<>>

\* the y axis as the function and resetAll leave it: the generations
GenerationAxis == [label |-> "Generation", sample |-> <<>>, density |-> <<>>]

\* createRidgelinePlot(data, containerId) of the static chart: with no record
\* to group the function returns before it draws a ridge or the link
InitStatic ==
    /\ ridgeGroups = [i \in 1..Len(ridgeDataByGenArray(data)) |->
                        [datum |-> ridgeDataByGenArray(data)[i],
                         path |-> RidgePath(ridgeDataByGenArray(data)[i]),
                         display |-> "inline"]]
    /\ yAxis = GenerationAxis
    /\ showAllLink = IF dataByGenRecords(data) = <<>> THEN "absent" ELSE "none"
    /\ staticEvent = <<"create">>

\* resetAll leaving the "Show All Plots" link as it is
ResetAllKeepLink ==
    /\ ridgeGroups' = [i \in 1..Len(ridgeGroups) |-> [ridgeGroups[i] EXCEPT !.display = "inline"]]
    /\ yAxis' = GenerationAxis
    /\ showAllLink' = showAllLink

\* resetAll(): the label, every ridge and the categorical axis are restored
\* and the link is hidden
ResetAll ==
    /\ ridgeGroups' = [i \in 1..Len(ridgeGroups) |-> [ridgeGroups[i] EXCEPT !.display = "inline"]]
    /\ yAxis' = GenerationAxis
    /\ showAllLink' = "none"

\* ridgeGroups.on("click"): every other ridge is hidden, the clicked one is
\* shown, the y axis is scaled by the density of the clicked generation's
\* totals and the link is shown
RidgeClick ==
    \E i \in 1..Len(ridgeGroups) :
        /\ ridgeGroups' = [j \in 1..Len(ridgeGroups) |->
                             [ridgeGroups[j] EXCEPT
                                 !.display = IF j = i THEN "inline" ELSE "none"]]
        /\ yAxis' = [label |-> "Number of Pokemon",
                     sample |-> genTotals(ridgeGroups[i].datum),
                     density |-> ZoomDensity(genTotals(ridgeGroups[i].datum))]
        /\ showAllLink' = "inline"
        /\ staticEvent' = <<"click", i>>
        /\ UNCHANGED <<data, barVars, pcpVars, ridgeVars>>

\* ridgeGroups.on("dblclick", resetAll)
RidgeDblClick ==
    \E i \in 1..Len(ridgeGroups) :
        /\ ResetAll
        /\ staticEvent' = <<"dblclick", i>>
        /\ UNCHANGED <<data, barVars, pcpVars, ridgeVars>>

\* showAllLink.on("click", resetAll)
ShowAllPlotsClick ==
    /\ showAllLink # "absent"
    /\ ResetAll
    /\ staticEvent' = <<"showAll">>
    /\ UNCHANGED <<data, barVars, pcpVars, ridgeVars>>

(***************************************************************************)
(* Specifications: one per chart, each over datasets that exercise it.     *)
(***************************************************************************)
\* The page creates the stacked bar chart with the filters it chooses (none
\* by default).
InitBar ==
    /\ data \in BarDatasets
    /\ \E p \in BarPrimaryArgs, s \in BarSecondaryArgs :
          bar = createStackedBarChart(data, p, s)
    /\ barEvent = <<"create">>
    /\ InitPcp
    /\ InitRidge
    /\ InitStatic

NextBar == RectClick \/ ShowAllClick \/ BackClick

SpecBar == InitBar /\ [][NextBar]_vars

\* the chart as the page first draws it: both filters at their defaults
InitNav ==
    /\ data \in BarDatasets
    /\ bar = createStackedBarChart(data, Null, Null)
    /\ barEvent = <<"create">>
    /\ InitPcp
    /\ InitRidge
    /\ InitStatic

SpecNav == InitNav /\ [][NextBar]_vars

\* the aggregation over secondary types that are any strings
AggregateSecondaryTypes == {"None", "Fire", "total"}

AggregateRecords ==
    {Pokemon(n, t1, t2, GoodStats, Num(1), Num(300)) :
        n \in {NameList[1], NameList[2]}, t1 \in BarPrimaryTypes,
        t2 \in AggregateSecondaryTypes}

AggregateDatasets == UNION {[1..n -> AggregateRecords] : n \in 0..MaxNavRecords}

InitAggregate ==
    /\ data \in AggregateDatasets
    /\ bar = createStackedBarChart(data, Null, Null)
    /\ barEvent = <<"create">>
    /\ InitPcp
    /\ InitRidge
    /\ InitStatic

SpecAggregate == InitAggregate /\ [][NextBar]_vars

PcpTypes == {"Fire", "Water"}

NaNSpeed == [GoodStats EXCEPT !["Speed"] = NaNValue]

NoHP == [GoodStats EXCEPT !["HP"] = Undefined]

PcpStats == {GoodStats, NaNSpeed, NoHP}

\* record names are unique: the i-th record has the i-th name
PcpDatasets ==
    UNION {{[i \in 1..n |-> Pokemon(NameList[i], ts[i], "None", st[i], Num(1), Num(300))] :
              ts \in [1..n -> PcpTypes], st \in [1..n -> PcpStats]} : n \in 0..MaxPcpRecords}

InitPcpSpec ==
    /\ data \in PcpDatasets
    /\ bar = createStackedBarChart(data, Null, Null)
    /\ barEvent = <<"create">>
    /\ InitPcp
    /\ InitRidge
    /\ InitStatic

NextPcp ==
    \/ SelectAllClick \/ DeselectAllClick \/ CheckboxChange
    \/ PathClick \/ LookupSettle \/ CloseClick
    \/ MouseOver \/ MouseOut

SpecPcp == InitPcpSpec /\ [][NextPcp]_vars

RidgeGenerations == {Num(1), Num(2), Num(3), NaNValue}

RidgeTotals == {Num(300), NaNValue}

RidgeRecords ==
    {Pokemon(NameList[1], "Fire", "None", GoodStats, g, tot) :
        g \in RidgeGenerations, tot \in RidgeTotals}

RidgeDatasets == UNION {[1..n -> RidgeRecords] : n \in 0..MaxRidgeRecords}

InitRidgeSpec ==
    /\ data \in RidgeDatasets
    /\ bar = createStackedBarChart(data, Null, Null)
    /\ barEvent = <<"create">>
    /\ InitPcp
    /\ InitRidge
    /\ InitStatic

NextRidge == PlayButtonClick \/ SliderInput \/ IntervalTick

SpecRidge == InitRidgeSpec /\ [][NextRidge]_vars

\* Playback left alone: the user clicks and scrubs only while the animation
\* is not playing, and a running d3.interval fires again and again.
UserEventWhilePaused == ~isPlaying /\ (PlayButtonClick \/ SliderInput)

NextPlayback == UserEventWhilePaused \/ IntervalTick

\* The steps of IntervalTick, told by what enables them and by the count they
\* advance: d3.interval calls runAnimationStep as long as the timer runs.
IntervalFires == intervals # {} /\ ticks' = ticks + 1

SpecPlayback == InitRidgeSpec /\ [][NextPlayback]_vars /\ WF_ticks(IntervalFires)

\* The steps of the animation: datasets whose generations are numbers and
\* numeric strings, 2 and 10 among them, which sort apart as numbers and as
\* strings.
StepGenerations == {Num(2), NumStr(2), NumStr(10), NaNValue}

StepRecords ==
    {Pokemon(NameList[1], "Fire", "None", GoodStats, g, tot) :
        g \in StepGenerations, tot \in RidgeTotals}

StepDatasets == UNION {[1..n -> StepRecords] : n \in 0..MaxRidgeRecords}

InitStepsSpec ==
    /\ data \in StepDatasets
    /\ bar = createStackedBarChart(data, Null, Null)
    /\ barEvent = <<"create">>
    /\ InitPcp
    /\ InitRidge
    /\ InitStatic

NextSteps == PlayButtonClick \/ SliderInput \/ IntervalTick

SpecSteps == InitStepsSpec /\ [][NextSteps]_vars

\* The density estimates: datasets of two generations whose totals lie 25
\* apart, more than the bandwidth, under both ridgeline charts.
DensityGenerations == {Num(1), Num(2)}

DensityTotals == {Num(300), Num(325), NaNValue}

DensityRecords ==
    {Pokemon(NameList[1], "Fire", "None", GoodStats, g, tot) :
        g \in DensityGenerations, tot \in DensityTotals}

DensityDatasets == UNION {[1..n -> DensityRecords] : n \in 0..MaxRidgeRecords}

InitDensitySpec ==
    /\ data \in DensityDatasets
    /\ bar = createStackedBarChart(data, Null, Null)
    /\ barEvent = <<"create">>
    /\ InitPcp
    /\ InitRidge
    /\ InitStatic

NextDensity ==
    \/ PlayButtonClick \/ SliderInput \/ IntervalTick
    \/ RidgeClick \/ RidgeDblClick \/ ShowAllPlotsClick

SpecDensity == InitDensitySpec /\ [][NextDensity]_vars

\* the static ridgeline plot alone, under its three handlers
NextStatic == RidgeClick \/ RidgeDblClick \/ ShowAllPlotsClick

SpecStatic == InitDensitySpec /\ [][NextStatic]_vars

(***************************************************************************)
(* Navigation claims (stackedBarChart.js), under SpecBar.                  *)
(***************************************************************************)
PrimaryTypesOf(d) == {d[i].Type_1 : i \in 1..Len(d)}

\* C4: forward navigation.  In the overview every primary type of the data
\* has a segment to select; selecting a segment of primary type p from the
\* overview yields PrimaryFiltered(p); selecting a segment of secondary type
\* s from PrimaryFiltered(p) yields DetailList(p, s).
C4_ForwardNavigation ==
    [][/\ NavLevel(bar) = <<"Overview">> =>
            \A p \in PrimaryTypesOf(data) : \E r \in bar.rects : r.primaryType = p
       /\ barEvent'[1] = "rect" /\ NavLevel(bar) = <<"Overview">> =>
            NavLevel(bar') = <<"PrimaryFiltered", barEvent'[2]>>
       /\ barEvent'[1] = "rect" /\ NavLevel(bar)[1] = "PrimaryFiltered" =>
            NavLevel(bar') = <<"DetailList", NavLevel(bar)[2], barEvent'[3]>>]_vars

\* C4 witness: a segment was selected in a primary type's view and the list
\* of that primary and secondary type is shown.
C4_Witness ==
    /\ barEvent[1] = "rect"
    /\ NavLevel(bar) = <<"DetailList", barEvent[2], barEvent[3]>>
    /\ bar.list # <<>>

\* C5: backward navigation.  "Back" from DetailList(p, s) yields
\* PrimaryFiltered(p); "Show All Types" yields the overview with both filters
\* null; the link is there at every level but the overview.
C5_BackwardNavigation ==
    [][/\ NavLevel(bar)[1] # "Overview" => "showAll" \in bar.links
       /\ barEvent'[1] = "showAll" =>
            /\ NavLevel(bar') = <<"Overview">>
            /\ bar'.activeFilterPrimaryType = Null
            /\ bar'.activeFilterSecondaryType = Null
       /\ barEvent'[1] = "back" /\ NavLevel(bar)[1] = "DetailList" =>
            NavLevel(bar') = <<"PrimaryFiltered", NavLevel(bar)[2]>>]_vars

\* C6: a chart whose primary filter no record has is the overview, with a
\* warning, whether or not a secondary filter is set.
C6_InvalidPrimaryIsOverview ==
    Truthy(bar.activeFilterPrimaryType)
      /\ bar.activeFilterPrimaryType \notin PrimaryTypesOf(data) =>
        /\ bar.warned
        /\ bar.effectiveFilterPrimaryType = Null
        /\ NavLevel(bar) = <<"Overview">>
        /\ bar.groups = baseSortedCountsArray(data)
        /\ \A r \in bar.rects :
              NavLevel(RectClickHandler(bar, data, r)) = <<"PrimaryFiltered", r.primaryType>>

\* C7: the list view has no segment to select and exactly the two links;
\* the only events it handles are "back" and "show all", and the segment
\* click handler, were it called, would leave the chart as it is.
C7_DetailListIsTerminal ==
    [][NavLevel(bar)[1] = "DetailList" =>
          /\ bar.rects = {}
          /\ bar.links = {"back", "showAll"}
          /\ barEvent'[1] \in {"back", "showAll"}
          /\ \A q \in BarPrimaryArgs \ {Null}, k \in BarSecondaryTypes :
                RectClickHandler(bar, data, [primaryType |-> q, key |-> k]) = bar]_vars

\* C7 witness: the list view was left by "back".
C7_Witness ==
    /\ barEvent[1] = "back"
    /\ NavLevel(bar)[1] = "PrimaryFiltered"

\* C8: in PrimaryFiltered(p) only p's group is displayed and selectable, and
\* the click handler leaves the chart as it is for a segment of any other
\* primary type.
C8_OtherPrimaryNotSelectable ==
    NavLevel(bar)[1] = "PrimaryFiltered" =>
        /\ Len(bar.groups) = 1
        /\ bar.groups[1].primaryType = NavLevel(bar)[2]
        /\ \A r \in bar.rects : r.primaryType = NavLevel(bar)[2]
        /\ \A q \in BarPrimaryArgs \ {NavLevel(bar)[2], Null}, k \in BarSecondaryTypes :
              RectClickHandler(bar, data, [primaryType |-> q, key |-> k]) = bar

\* C8 witness: a primary type's view of a dataset that has another primary
\* type as well.
C8_Witness ==
    /\ NavLevel(bar)[1] = "PrimaryFiltered"
    /\ barEvent[1] = "rect"
    /\ Cardinality(PrimaryTypesOf(data)) > 1

(***************************************************************************)
(* Aggregation claims (stackedBarChart.js), under SpecBar.                 *)
(***************************************************************************)
RECURSIVE SumOfTotals(_)
SumOfTotals(groups) ==
    IF groups = <<>> THEN 0
    ELSE groups[1].total + SumOfTotals(SubSeq(groups, 2, Len(groups)))

\* the positions in d of the records of primary type k
RecordsOfPrimary(d, k) == {i \in 1..Len(d) : d[i].Type_1 = k}

\* C23: the totals of the groups of the aggregate add up to the number of
\* records; there is one group per primary type of the data, and its total
\* is the number of records of that primary type; the overview displays
\* these groups.
C23_TotalsSumToRecordCount ==
    LET groups == baseSortedCountsArray(data)
    IN /\ SumOfTotals(groups) = Len(data)
       /\ \A i \in 1..Len(groups) :
             groups[i].total = Cardinality(RecordsOfPrimary(data, groups[i].primaryType))
       /\ \A i, j \in 1..Len(groups) :
             groups[i].primaryType = groups[j].primaryType => i = j
       /\ {groups[i].primaryType : i \in 1..Len(groups)} = PrimaryTypesOf(data)
       /\ NavLevel(bar) = <<"Overview">> => bar.groups = groups

\* C23 witness: the overview, reached by "Show All Types", of three records
\* in two groups.
C23_Witness ==
    /\ barEvent = <<"showAll">>
    /\ NavLevel(bar) = <<"Overview">>
    /\ Len(data) = 3
    /\ Len(bar.groups) = 2
    /\ SumOfTotals(bar.groups) = 3

\* the position in d of the first record of primary type k
FirstEncounter(d, k) ==
    CHOOSE i \in RecordsOfPrimary(d, k) : \A j \in RecordsOfPrimary(d, k) : i <= j

\* C24: of two groups of the aggregate the one with the larger total comes
\* first, and of two with the same total the one whose primary type occurs
\* first in the data; this fixes the order, and every overview drawn, by
\* whatever call, displays the groups in it.
C24_DescendingTotalStable ==
    LET groups == baseSortedCountsArray(data)
    IN /\ \A i, j \in 1..Len(groups) :
             i < j =>
               \/ groups[i].total > groups[j].total
               \/ /\ groups[i].total = groups[j].total
                  /\ FirstEncounter(data, groups[i].primaryType)
                        < FirstEncounter(data, groups[j].primaryType)
       /\ NavLevel(bar) = <<"Overview">> => bar.groups = groups

\* C24 witness: an overview drawn again by "Show All Types" with two groups of
\* the same total, the one met first in the data being the later in
\* alphabetical order.
C24_Witness ==
    /\ barEvent = <<"showAll">>
    /\ Len(bar.groups) = 2
    /\ bar.groups[1].total = bar.groups[2].total
    /\ bar.groups[1].primaryType = "Water"
    /\ bar.groups[2].primaryType = "Fire"

\* C25: a primary type's view displays one group, the group of that type in
\* the aggregate of all the data with its counts; its layers and legend are
\* the secondary types of all the data, "None" first when present and the
\* others in alphabetical order, the same as the overview's.
C25_FilteredKeepsSecondaryDomain ==
    NavLevel(bar)[1] = "PrimaryFiltered" =>
        /\ Len(bar.groups) = 1
        /\ bar.groups[1].primaryType = NavLevel(bar)[2]
        /\ \E i \in 1..Len(baseSortedCountsArray(data)) :
              bar.groups[1] = baseSortedCountsArray(data)[i]
        /\ \A k \in DOMAIN bar.groups[1].counts :
              bar.groups[1].counts[k] =
                Cardinality({i \in RecordsOfPrimary(data, NavLevel(bar)[2]) : data[i].Type_2 = k})
        /\ Range(bar.legend) = {data[i].Type_2 : i \in 1..Len(data)}
        /\ DOMAIN bar.groups[1].counts = Range(bar.legend)
        /\ {r.key : r \in bar.rects} = Range(bar.legend)
        /\ \A i, j \in 1..Len(bar.legend) :
              i < j => /\ bar.legend[j] # "None"
                       /\ bar.legend[i] # bar.legend[j]
                       /\ bar.legend[i] # "None" =>
                             IndexOf(TypeNames, bar.legend[i]) < IndexOf(TypeNames, bar.legend[j])
        /\ bar.legend = ShowAllHandler(bar, data).legend

\* C25 witness: a primary type's view, reached by a click, whose legend has a
\* secondary type that no record of the displayed group has.
C25_Witness ==
    /\ barEvent[1] = "rect"
    /\ NavLevel(bar)[1] = "PrimaryFiltered"
    /\ Len(bar.legend) >= 2
    /\ bar.legend[1] = "None"
    /\ \E k \in Range(bar.legend) : bar.groups[1].counts[k] = 0

\* the number of elements of s equal to r
Occurrences(s, r) == Cardinality({i \in 1..Len(s) : s[i] = r})

\* C26: the list view of (p, s) lists each record of the data of primary type
\* p and secondary type s as often as the data has it, and nothing else, in
\* ascending order of Name.
C26_DetailListsExactlyMatching ==
    NavLevel(bar)[1] = "DetailList" =>
        /\ \A r \in Range(data) \cup Range(bar.list) :
              Occurrences(bar.list, r) =
                IF r.Type_1 = NavLevel(bar)[2] /\ r.Type_2 = NavLevel(bar)[3]
                THEN Occurrences(data, r) ELSE 0
        /\ \A i, j \in 1..Len(bar.list) :
              i < j => IndexOf(NameList, bar.list[i].Name) <= IndexOf(NameList, bar.list[j].Name)

\* C26 witness: a list view reached by a click that lists one of three
\* records; of the others one has the same primary type and one the same
\* secondary type.
C26_Witness ==
    /\ barEvent[1] = "rect"
    /\ NavLevel(bar)[1] = "DetailList"
    /\ Len(bar.list) = 1
    /\ Len(data) = 3
    /\ \E i \in 1..Len(data) :
          data[i].Type_1 = NavLevel(bar)[2] /\ data[i].Type_2 # NavLevel(bar)[3]
    /\ \E i \in 1..Len(data) :
          data[i].Type_1 # NavLevel(bar)[2] /\ data[i].Type_2 = NavLevel(bar)[3]

\* C30: no click of the stacked bar chart changes the content or the order of
\* the data array or of a record of it, the click that sorts the list of a
\* primary and secondary type included.
C30_DataIsReadOnly == [][data' = data]_vars

\* C30 witness: a click led to a list of two records or more whose order by
\* name is not their order in the data.
C30_Witness ==
    /\ barEvent[1] = "rect"
    /\ bar.view = "list"
    /\ Len(bar.list) >= 2
    /\ bar.list # specificPokemon(data, bar.activeFilterPrimaryType, bar.activeFilterSecondaryType)
    /\ data # ArraySort(data, NameAscending)

\* what a chart renders and what its click handler reads besides the
\* arguments it was called with
RenderedFields ==
    {"effectiveFilterPrimaryType", "title", "links", "view", "list", "groups", "legend",
     "rects", "warned"}

\* C29: a chart created with no primary filter renders as the overview
\* whatever secondary filter it was given: the overview's title, no link,
\* the bars of every group, and a click on a segment leads to the clicked
\* primary type's view as it does from the overview.
C29_SecondaryIgnoredWithoutPrimary ==
    ~Truthy(bar.activeFilterPrimaryType) =>
        /\ NavLevel(bar) = <<"Overview">>
        /\ bar.title = OverviewTitle
        /\ bar.links = {}
        /\ bar.view = "bars"
        /\ bar.groups = baseSortedCountsArray(data)
        /\ \A f \in RenderedFields : bar[f] = createStackedBarChart(data, Null, Null)[f]
        /\ \A r \in bar.rects :
              /\ r \in createStackedBarChart(data, Null, Null).rects
              /\ RectClickHandler(bar, data, r) =
                    RectClickHandler(createStackedBarChart(data, Null, Null), data, r)
              /\ NavLevel(RectClickHandler(bar, data, r)) = <<"PrimaryFiltered", r.primaryType>>

\* C29 witness: a chart of two groups created with a secondary filter and no
\* primary filter.
C29_Witness ==
    /\ barEvent = <<"create">>
    /\ ~Truthy(bar.activeFilterPrimaryType)
    /\ Truthy(bar.activeFilterSecondaryType)
    /\ Len(bar.groups) = 2
    /\ bar.rects # {}

(***************************************************************************)
(* Selection claims (parallelCoordinatesPlot.js), under SpecPcp.           *)
(***************************************************************************)
\* a record every dimension of which is a number
HasAllStats(r) == \A dim \in Range(dimensions) : r.Stats[dim].kind = "number"

\* the filtered working set: the valid records of the data whose primary
\* type is checked
InWorkingSet(r) ==
    /\ \E i \in 1..Len(data) : data[i] = r
    /\ HasAllStats(r)
    /\ r.Type_1 \in checked

\* C2: the focused record, if any, is a valid record of the data whose
\* primary type is among the checked types.
C2_FocusInWorkingSet ==
    selectedPokemon # <<>> => InWorkingSet(selectedPokemon[1])

\* C2 witness: a record is still focused after a checkbox of another type was
\* unchecked.
C2_Witness ==
    /\ selectedPokemon # <<>>
    /\ pcpEvent = "checkbox"
    /\ checked # primaryTypesForSelector(data)

SetsActiveCategories(e) == e \in {"selectAll", "deselectAll", "checkbox"}

\* C3: Select All, Deselect All and a checkbox change replace the checked set
\* (by all types, by none, by the set with one type toggled); in the same
\* step a focus on a record of an unchecked type is cleared and the modal
\* and overlay hidden, any other focus is kept, and the paths drawn are those
\* of the new working set, styled for the focus as it is after the step.
C3_SetActiveCategories ==
    [][SetsActiveCategories(pcpEvent') =>
        /\ pcpEvent' = "selectAll" => checked' = primaryTypesForSelector(data)
        /\ pcpEvent' = "deselectAll" => checked' = {}
        /\ pcpEvent' = "checkbox" =>
              \E type \in primaryTypesForSelector(data) :
                  checked' = (checked \ {type}) \cup ({type} \ checked)
        /\ IF selectedPokemon # <<>> /\ selectedPokemon[1].Type_1 \notin checked'
           THEN /\ selectedPokemon' = <<>>
                /\ pokemonInfoWrapper'.display = "none"
                /\ overlay' = "none"
           ELSE /\ selectedPokemon' = selectedPokemon
                /\ pokemonInfoWrapper' = pokemonInfoWrapper
                /\ overlay' = overlay
        /\ \A i \in 1..Len(paths') :
              /\ paths'[i].d.Type_1 \in checked'
              /\ paths'[i].style.opacity =
                    IF selectedPokemon' = <<>> THEN "0.5"
                    ELSE IF paths'[i].d = selectedPokemon'[1] THEN "1" ELSE "0.05"]_vars

\* C3 witness: after Deselect All nothing is focused, and the lookup sent for
\* the record that was focused is still pending.
C3_Witness ==
    /\ pcpEvent = "deselectAll"
    /\ selectedPokemon = <<>>
    /\ pokemonInfoWrapper.display = "none"
    /\ lookups # {}

\* C9: the image in the modal is the loading image or the outcome of a lookup
\* sent for the focused record; without a focus the modal holds no image.
C9_NoStaleImage ==
    /\ selectedPokemon = <<>> => pokemonInfoWrapper.html = <<>>
    /\ pokemonInfoWrapper.html # <<>> =>
          /\ selectedPokemon # <<>>
          /\ pokemonInfoWrapper.html[1].name = selectedPokemon[1].Name
          /\ \/ pokemonInfoWrapper.html[1].img = <<"Loading">>
             \/ pokemonInfoWrapper.html[1].img \in LookupOutcomes(selectedPokemon[1].Name)

\* C9 witness: a lookup settled and the modal of the focused record still
\* shows the loading image, so the lookup was one sent for an earlier focus.
C9_Witness ==
    /\ pcpEvent = "settle"
    /\ selectedPokemon # <<>>
    /\ pokemonInfoWrapper.html # <<>>
    /\ pokemonInfoWrapper.html[1].img = <<"Loading">>
    /\ \E l \in lookups : l.attached

\* C10: once a click has focused a record, and while its lookup is pending,
\* the paths are styled for that focus.
C10_EmphasisFollowsFocus ==
    pcpEvent = "click" =>
        \A i \in 1..Len(paths) : paths[i].style = LineStyle(selectedPokemon, paths[i].d)

\* the lookup that settles in this step was sent by the click that built the
\* modal's current image slot
AttachedLookupSettles ==
    /\ pcpEvent' = "settle"
    /\ \E l \in lookups : l.attached /\ l \notin lookups'

\* C11: when a lookup settles, by failing or otherwise, the focus, the modal's
\* display and the overlay are as they were and every path is styled for
\* that focus; when it is the lookup of the current image slot, the slot
\* leaves the loading image for an outcome of the focused record's lookup,
\* the "Error" placeholder when the lookup failed.
C11_LookupFailureFallback ==
    [][pcpEvent' = "settle" =>
        /\ selectedPokemon' = selectedPokemon
        /\ pokemonInfoWrapper'.display = pokemonInfoWrapper.display
        /\ overlay' = overlay
        /\ \A i \in 1..Len(paths') :
              /\ paths'[i].d = paths[i].d
              /\ paths'[i].style = LineStyle(selectedPokemon, paths'[i].d)
        /\ AttachedLookupSettles =>
              /\ selectedPokemon # <<>>
              /\ pokemonInfoWrapper'.html[1].img \in LookupOutcomes(selectedPokemon[1].Name)]_vars

\* C11 witness: a lookup failed; the modal of the focused record shows the
\* "Error" placeholder and the record's path is emphasised.
C11_Witness ==
    /\ pcpEvent = "settle"
    /\ selectedPokemon # <<>>
    /\ pokemonInfoWrapper.display = "block"
    /\ pokemonInfoWrapper.html[1].img = <<"Error", selectedPokemon[1].Name>>
    /\ \E i \in 1..Len(paths) :
          paths[i].d = selectedPokemon[1] /\ paths[i].style.opacity = "1"

\* C20: the records that can be focused, those with a path to click, are
\* exactly the records of the working set; a click focuses the record of the
\* clicked path and leaves the checked types alone; the focus changes to a
\* record only by a click on that record's path, so that a record outside
\* the working set is never focused and leaves the focus as it is.
C20_FocusOnlyInWorkingSet ==
    [][/\ \A i \in 1..Len(paths) : InWorkingSet(paths[i].d)
       /\ \A j \in 1..Len(data) :
             InWorkingSet(data[j]) => \E i \in 1..Len(paths) : paths[i].d = data[j]
       /\ pcpEvent' = "click" =>
             /\ checked' = checked
             /\ selectedPokemon' # <<>>
             /\ InWorkingSet(selectedPokemon'[1])
       /\ selectedPokemon' # selectedPokemon /\ selectedPokemon' # <<>> =>
             /\ pcpEvent' = "click"
             /\ \E i \in 1..Len(paths) : paths[i].d = selectedPokemon'[1]]_vars

\* C20 witness: a record was focused by a click while another record of the
\* data is outside the working set.
C20_Witness ==
    /\ pcpEvent = "click"
    /\ selectedPokemon # <<>>
    /\ InWorkingSet(selectedPokemon[1])
    /\ \E j \in 1..Len(data) : ~InWorkingSet(data[j])

\* a path drawn at the baseline or the highlighted opacity
Emphasized(style) == style.opacity \in {"0.5", "1"}

\* C21: apart from the transient styles of a hover, the paths drawn are those
\* of the working set; a path is emphasized exactly when its record is the
\* focus or nothing is focused, and is faded to 0.05 otherwise.
C21_EmphasisRule ==
    pcpEvent # "mouseover" =>
        /\ \A j \in 1..Len(data) :
              InWorkingSet(data[j]) <=> \E i \in 1..Len(paths) : paths[i].d = data[j]
        /\ \A i \in 1..Len(paths) :
              /\ InWorkingSet(paths[i].d)
              /\ Emphasized(paths[i].style) <=>
                    (selectedPokemon = <<>> \/ paths[i].d = selectedPokemon[1])
              /\ ~Emphasized(paths[i].style) => paths[i].style.opacity = "0.05"

\* C22: whenever a record is focused the modal with its Close button is
\* shown; a click on Close leaves no focus, the modal and overlay hidden, the
\* checked types and the paths' records as they were and every path at the
\* baseline style; the handler applied to the state it produced gives that
\* state again.
C22_ClearFocusIdempotent ==
    [][/\ selectedPokemon # <<>> => pokemonInfoWrapper.display = "block"
       /\ pcpEvent' = "close" =>
             /\ selectedPokemon' = <<>>
             /\ checked' = checked
             /\ pokemonInfoWrapper' = HiddenModal
             /\ overlay' = "none"
             /\ \A i \in 1..Len(paths') :
                   paths'[i].d = paths[i].d /\ paths'[i].style = LineStyle(<<>>, paths[i].d)
             /\ Len(paths') = Len(paths)
             /\ CloseHandler(PcpState') = PcpState']_vars

\* C22 witness: Close was clicked while the lookup of the focused record was
\* pending, with another record in the plot.
C22_Witness ==
    /\ pcpEvent = "close"
    /\ selectedPokemon = <<>>
    /\ lookups # {}
    /\ Len(paths) > 1

(***************************************************************************)
(* Animation claims (ridgelinePlot.js), under SpecRidge.                   *)
(***************************************************************************)
\* the animation ran to its end: the interval's last tick paused it
RanToEnd ==
    /\ ~isPlaying
    /\ ridgeEvent = <<"tick">>
    /\ currentAnimationGenerationIndex >= Len(dataByGenArray(data))

\* C1: replay.  A click on the button after the animation ran to its end
\* starts again from step 0: step 0 is drawn, the slider is at 0 and the
\* next step to draw is step 1.
C1_ReplayStartsAtZero ==
    [][RanToEnd /\ ridgeEvent' = <<"play">> =>
          /\ isPlaying'
          /\ shown'.idx = 0
          /\ slider' = 0
          /\ currentAnimationGenerationIndex' = 1]_vars

\* C12: a scrub leaves the controller not playing with no interval running,
\* whether or not it was playing; the slider, the index and the step drawn
\* are the scrubbed position; no tick follows a scrub.
C12_ScrubPausesFirst ==
    [][/\ ridgeEvent'[1] = "scrub" =>
            /\ ~isPlaying'
            /\ intervals' = {}
            /\ animationTimer' = 0
            /\ slider' = SliderValue(dataByGenArray(data), ridgeEvent'[2])
            /\ currentAnimationGenerationIndex' = slider'
            /\ shown'.idx = slider'
       /\ ridgeEvent[1] = "scrub" => ridgeEvent'[1] # "tick"]_vars

\* C12 witness: a scrub to a later step paused a running animation.
C12_Witness ==
    /\ ridgeEvent[1] = "scrub"
    /\ ridgeEvent[3]
    /\ ~isPlaying
    /\ shown.idx = ridgeEvent[2]
    /\ shown.idx > 0

\* C13: a scrub to the position before the first step gives step 0, a scrub
\* to the position after the last step gives the last step; slider, index
\* and the step drawn agree.
C13_ScrubClamps ==
    [][ridgeEvent'[1] = "scrub" =>
        LET length == Len(dataByGenArray(data))
            clamped == IF ridgeEvent'[2] < 0 THEN 0
                       ELSE IF ridgeEvent'[2] >= length THEN length - 1
                       ELSE ridgeEvent'[2]
        IN /\ currentAnimationGenerationIndex' = clamped
           /\ slider' = clamped
           /\ shown'.idx = clamped
           /\ shown'.key = <<dataByGenArray(data)[clamped + 1].key>>]_vars

\* C13 witness: a scrub past the last of several steps shows the last step.
C13_Witness ==
    /\ ridgeEvent[1] = "scrub"
    /\ ridgeEvent[2] = Len(dataByGenArray(data))
    /\ shown.idx = Len(dataByGenArray(data)) - 1
    /\ shown.idx > 0

\* the state right after playAnimation() or an interval callback of a
\* playback that started at step 0
PlaybackFromZero ==
    /\ ridgeEvent[1] \in {"play", "tick"}
    /\ playedFrom = 0

\* C14 as stated: a playback from step 0 of `length` steps is finished after
\* length - 1 interval callbacks.
C14_FinishedAfterLengthMinusOneTicks ==
    PlaybackFromZero /\ ticks = Len(dataByGenArray(data)) - 1 =>
        ~isPlaying /\ playButton = "Replay"

\* C14 amended: a playback from step 0 of `length` steps draws step k at the
\* k-th interval callback and is still playing for k < length; the
\* length-th callback draws nothing and stops it with the "Replay" label,
\* the last step shown and no interval running; a callback stops only a
\* playing controller, there is no callback past the length-th, and while
\* the controller is not playing the only events are play and scrub.
C14_FinishedAfterLengthTicks ==
    [][LET length == Len(dataByGenArray(data))
       IN /\ PlaybackFromZero' =>
               /\ ticks' <= length
               /\ ticks' < length =>
                     /\ isPlaying' /\ playButton' = "Pause" /\ intervals' # {}
                     /\ shown'.idx = ticks'
                     /\ currentAnimationGenerationIndex' = ticks' + 1
               /\ ticks' = length =>
                     /\ ~isPlaying' /\ playButton' = "Replay" /\ intervals' = {}
                     /\ shown'.idx = length - 1
                     /\ currentAnimationGenerationIndex' = length
          /\ ridgeEvent' = <<"tick">> /\ ~isPlaying' => isPlaying
          /\ ~isPlaying => ridgeEvent'[1] \in {"play", "scrub"}]_vars

\* C14 witness: a playback of several steps from step 0 was stopped by its
\* length-th interval callback.
C14_Witness ==
    /\ PlaybackFromZero
    /\ Len(dataByGenArray(data)) >= 2
    /\ ticks = Len(dataByGenArray(data))
    /\ playButton = "Replay"

\* C15: play on a fresh controller, or on one paused by the button or by a
\* scrub, draws the step the slider is at, leaves the slider there and
\* starts the interval; every later interval callback of the playback draws
\* the step after the one shown, or stops the playback when the last step is
\* shown.
C15_PlayResumesFromCurrent ==
    [][/\ ridgeEvent[1] \in {"create", "pause", "scrub"} /\ ridgeEvent' = <<"play">> =>
            /\ isPlaying'
            /\ intervals' # {}
            /\ slider' = slider
            /\ shown'.idx = slider
            /\ currentAnimationGenerationIndex' = slider + 1
       /\ ridgeEvent' = <<"tick">> =>
            IF shown.idx < Len(dataByGenArray(data)) - 1
            THEN /\ isPlaying'
                 /\ shown'.idx = shown.idx + 1
                 /\ slider' = shown'.idx
                 /\ currentAnimationGenerationIndex' = shown'.idx + 1
            ELSE /\ ~isPlaying'
                 /\ shown' = shown]_vars

\* C15 witness: a playback started at the middle step went on to the step
\* after it.
C15_Witness ==
    /\ ridgeEvent = <<"tick">>
    /\ playedFrom = 1
    /\ ticks = 1
    /\ isPlaying
    /\ shown.idx = 2

ValidObservations(k) ==
    Cardinality({i \in 1..Len(data) :
                   String(data[i].Generation) = k /\ data[i].Total.kind = "number"})

\* C17: when the step after the one shown has fewer than two valid
\* observations, the next interval callback of the playback draws it, with
\* the empty density, and advances the index by one; the same holds of the
\* step playAnimation() draws first.
C17_SmallStepNotSkipped ==
    [][LET steps == dataByGenArray(data)
       IN /\ /\ ridgeEvent' = <<"tick">>
             /\ shown.idx < Len(steps) - 1
             /\ ValidObservations(steps[shown.idx + 2].key) < 2
             => /\ shown'.idx = shown.idx + 1
                /\ shown'.key = <<steps[shown.idx + 2].key>>
                /\ shown'.density = "empty"
                /\ Len(shown'.sample) = ValidObservations(steps[shown.idx + 2].key)
                /\ currentAnimationGenerationIndex' = currentAnimationGenerationIndex + 1
                /\ ticks' = ticks + 1
                /\ isPlaying'
          /\ /\ ridgeEvent' = <<"play">>
             /\ ValidObservations(steps[slider + 1].key) < 2
             => /\ shown'.idx = slider
                /\ shown'.density = "empty"
                /\ currentAnimationGenerationIndex' = slider + 1]_vars

\* C17 witness: an interval callback drew a step of one valid observation,
\* with the empty density, and the playback goes on.
C17_Witness ==
    /\ ridgeEvent = <<"tick">>
    /\ isPlaying
    /\ shown.idx > 0
    /\ shown.density = "empty"
    /\ ValidObservations(shown.key[1]) = 1
    /\ currentAnimationGenerationIndex = shown.idx + 1

\* C18: with no step the chart reports that there is nothing to display and
\* has no controls: nothing is playing, no interval runs, no event was ever
\* handled and none can be.
C18_EmptySequenceDisabled ==
    dataByGenArray(data) = <<>> =>
        /\ shown = NoDataShown
        /\ playButton = "none"
        /\ ~isPlaying
        /\ intervals = {}
        /\ animationTimer = 0
        /\ currentAnimationGenerationIndex = 0
        /\ ridgeEvent = <<"create">>
        /\ ~ENABLED NextRidge

\* C18 witness: a chart created on records none of which gives a step.
C18_Witness ==
    /\ data # <<>>
    /\ dataByGenArray(data) = <<>>
    /\ shown.density = "No valid generation data."

\* C19: at most one interval is running; one is running exactly when the
\* controller is playing, and it is the one animationTimer holds;
\* animationTimer is null when the controller is not playing.
C19_SingleTickSource ==
    /\ Cardinality(intervals) <= 1
    /\ isPlaying <=> intervals # {}
    /\ isPlaying => intervals = {animationTimer}
    /\ ~isPlaying => animationTimer = 0

\* C19 witness: playAnimation() ran from a later step, after a scrub or an
\* earlier playback, and one interval is running.
C19_Witness ==
    /\ ridgeEvent = <<"play">>
    /\ playedFrom > 0
    /\ isPlaying
    /\ Cardinality(intervals) = 1

(***************************************************************************)
(* Density claims (ridgelinePlot.js and src/unnamed/part_000), under        *)
(* SpecDensity.                                                            *)
(***************************************************************************)
\* curve has one pair per point of grid, in the order of grid, and no value
\* below zero
OnePairPerGridPoint(curve, grid) ==
    /\ Len(curve) = Len(grid)
    /\ \A i \in 1..Len(curve) :
          /\ curve[i][1] = grid[i]
          /\ curve[i][2].den > 0
          /\ curve[i][2].num >= 0

\* C27: a density estimated from a sample of two or more valid totals has one
\* (x, density) pair per grid point, in grid order, and no density below
\* zero: in the animated chart's step, in the static chart's ridges and in
\* the static chart's zoom.
C27_DensityPerGridPoint ==
    /\ Len(shown.sample) >= 2 => OnePairPerGridPoint(shown.curve, AnimatedGrid(data))
    /\ Len(yAxis.sample) >= 2 => OnePairPerGridPoint(yAxis.density, RidgeGrid(data))
    /\ \A i \in 1..Len(ridgeGroups) :
          ridgeGroups[i].path # <<>> =>
             OnePairPerGridPoint(ridgeGroups[i].path[1], RidgeGrid(data))

\* C27 witness: a step of the animation and a zoomed ridge, each with a
\* density over a grid of many points that is zero at some and positive at
\* others.
C27_Witness ==
    /\ ridgeEvent[1] \in {"scrub", "tick"}
    /\ Len(shown.sample) >= 2
    /\ Len(shown.curve) > 2
    /\ \E i, j \in 1..Len(shown.curve) :
          shown.curve[i][2].num = 0 /\ shown.curve[j][2].num > 0
    /\ staticEvent[1] = "click"
    /\ Len(yAxis.sample) >= 2
    /\ Len(yAxis.density) > 2
    /\ \E i, j \in 1..Len(yAxis.density) :
          yAxis.density[i][2].num = 0 /\ yAxis.density[j][2].num > 0

\* C28: for a sample of fewer than two valid totals the density is the
\* empty sequence, although the grid has points: in the step the animated
\* chart shows and in the zoom of the static chart, whose ridge of such a
\* sample has no path.
C28_SmallSampleEmptyDensity ==
    /\ shown.idx >= 0 /\ Len(shown.sample) < 2 =>
          shown.curve = <<>> /\ AnimatedGrid(data) # <<>>
    /\ staticEvent[1] = "click" /\ Len(yAxis.sample) < 2 =>
          yAxis.density = <<>> /\ RidgeGrid(data) # <<>>
    /\ \A i \in 1..Len(ridgeGroups) :
          Len(genTotals(ridgeGroups[i].datum)) < 2 => ridgeGroups[i].path = <<>>

\* C28 witness: the animation shows, and the static chart zooms, a generation
\* with one valid total and a record without one, over a grid of many points.
C28_Witness ==
    /\ ridgeEvent[1] \in {"scrub", "tick"}
    /\ Len(shown.sample) = 1
    /\ shown.curve = <<>>
    /\ Len(AnimatedGrid(data)) > 2
    /\ \E i \in 1..Len(data) : String(data[i].Generation) = shown.key[1] /\ IsNaN(data[i].Total)
    /\ staticEvent[1] = "click"
    /\ Len(yAxis.sample) = 1
    /\ yAxis.density = <<>>
    /\ Len(RidgeGrid(data)) > 2
    /\ \E i \in 1..Len(data) :
          /\ String(data[i].Generation) = ridgeGroups[staticEvent[2]].datum.key
          /\ IsNaN(data[i].Total)

(***************************************************************************)
(* Step sequence and playback claims (ridgelinePlot.js).                   *)
(***************************************************************************)
\* the generations of the records that have a numeric generation and a
\* numeric total, as numbers
ValidGenerations(d) ==
    {d[i].Generation.val :
        i \in {j \in 1..Len(d) : ~IsNaN(d[j].Generation) /\ ~IsNaN(d[j].Total)}}

\* C31: the steps of the animation are the generations that have a record
\* with a valid total, each once, in ascending numeric order, whether a
\* generation is a number or a numeric string; each step holds the records
\* of its generation that have a valid total.
C31_StepSequence ==
    LET steps == dataByGenArray(data)
    IN /\ Len(steps) = Cardinality(ValidGenerations(data))
       /\ {steps[i].key.val : i \in 1..Len(steps)} = ValidGenerations(data)
       /\ \A i, j \in 1..Len(steps) : i < j => steps[i].key.val < steps[j].key.val
       /\ \A i \in 1..Len(steps) :
             steps[i].values =
                SelectSeq(data, LAMBDA r : /\ ~IsNaN(r.Generation) /\ ~IsNaN(r.Total)
                                           /\ r.Generation.val = steps[i].key.val)

\* C31 with every generation of the data a number, or every one a string:
\* what holds of the code
C31_StepSequenceOfOneKind ==
    (\A i, j \in 1..Len(data) :
        IsNaN(data[i].Generation) \/ IsNaN(data[j].Generation)
           \/ data[i].Generation.kind = data[j].Generation.kind)
      => C31_StepSequence

\* C32: with steps to animate, the index lies in 0..length, the slider in
\* 0..length-1, the index is the slider's value or one more, and the index is
\* length only when the last step is the one displayed.
C32_IndexBounds ==
    LET steps == dataByGenArray(data)
    IN steps # <<>> =>
          /\ 0 <= currentAnimationGenerationIndex
          /\ currentAnimationGenerationIndex <= Len(steps)
          /\ 0 <= slider
          /\ slider <= Len(steps) - 1
          /\ slider <= currentAnimationGenerationIndex
          /\ currentAnimationGenerationIndex <= slider + 1
          /\ currentAnimationGenerationIndex = Len(steps) => shown.idx = Len(steps) - 1

\* C32 witness: a tick drew the last of several steps and left the index at
\* length, one past the slider.
C32_Witness ==
    /\ ridgeEvent[1] = "tick"
    /\ Len(dataByGenArray(data)) >= 2
    /\ currentAnimationGenerationIndex = Len(dataByGenArray(data))
    /\ slider = Len(dataByGenArray(data)) - 1
    /\ shown.idx = slider

\* C33: with steps to animate, the step displayed is the one at the slider's
\* value.
C33_DisplayedStepIsSliderStep ==
    LET steps == dataByGenArray(data)
    IN steps # <<>> =>
          /\ shown.idx = slider
          /\ slider \in 0..(Len(steps) - 1)
          /\ shown.key = <<steps[slider + 1].key>>
          /\ shown.sample = genTotals(steps[slider + 1])

\* C33 witness: the playback was started from a step the slider was moved
\* to, and a tick drew the step after it.
C33_Witness ==
    /\ ridgeEvent[1] = "tick"
    /\ playedFrom >= 1
    /\ shown.idx = playedFrom + 1
    /\ slider = shown.idx

\* the playback has stopped itself: not playing, no timer, no interval left
StoppedAtEnd ==
    /\ ~isPlaying
    /\ animationTimer = 0
    /\ intervals = {}
    /\ currentAnimationGenerationIndex = Len(dataByGenArray(data))
    /\ shown.idx = Len(dataByGenArray(data)) - 1
    /\ ticks = Len(dataByGenArray(data)) - playedFrom

\* C34: a playback that no user event interrupts draws, tick by tick, the
\* step after the one displayed, from the step it started at to the last,
\* and then stops itself: it is not playing and its timer is cancelled.
C34_PlaybackRunsToEndAndStops ==
    /\ [](isPlaying => /\ shown.idx = playedFrom + ticks
                       /\ shown.idx <= Len(dataByGenArray(data)) - 1)
    /\ [][isPlaying /\ ridgeEvent'[1] = "tick" =>
            IF isPlaying'
            THEN shown'.idx = shown.idx + 1
            ELSE /\ shown' = shown
                 /\ animationTimer' = 0
                 /\ intervals' = {}]_vars
    /\ (isPlaying ~> StoppedAtEnd)

\* C34 witness: a playback started at the first of three steps has stopped
\* itself after its third tick.
C34_Witness ==
    /\ ridgeEvent[1] = "tick"
    /\ StoppedAtEnd
    /\ playedFrom = 0
    /\ ticks = 3

\* C35: with steps to animate, the button reads "Pause" exactly while the
\* animation is playing; while it is not, the button reads "Replay" when the
\* index is at the end (index >= length) and "Play Animation" otherwise.
C35_LabelConsistency ==
    LET steps == dataByGenArray(data)
    IN steps # <<>> =>
          /\ playButton = "Pause" <=> isPlaying
          /\ ~isPlaying =>
                playButton = IF currentAnimationGenerationIndex >= Len(steps)
                             THEN "Replay" ELSE "Play Animation"

\* C35 witness: the playback has run to the end, the button reads "Replay",
\* and the slider was then moved back to the first of several steps.
C35_Witness ==
    /\ ridgeEvent[1] = "scrub"
    /\ ~ridgeEvent[3]
    /\ Len(dataByGenArray(data)) >= 2
    /\ currentAnimationGenerationIndex = 0
    /\ ~isPlaying
    /\ playButton = "Replay"

(***************************************************************************)
(* Navigation reachability claims (stackedBarChart.js)                     *)
(***************************************************************************)
\* the depth of a drill level
DrillDepth(level) ==
    IF level[1] = "Overview" THEN 0
    ELSE IF level[1] = "PrimaryFiltered" THEN 1 ELSE 2

\* the state part of the reachability invariant: a secondary filter only
\* with a primary one, the primary one a type of the data, no fallback taken
NavFiltersWellFormed ==
    /\ Truthy(bar.activeFilterSecondaryType) => Truthy(bar.activeFilterPrimaryType)
    /\ Truthy(bar.activeFilterPrimaryType) =>
          bar.activeFilterPrimaryType \in PrimaryTypesOf(data)
    /\ ~bar.warned

\* C36: in every state reached from the overview by segment clicks, "back"
\* and "Show All Types", a secondary filter is set only with a primary one,
\* the primary filter is a type of the data and the fallback is not taken,
\* and every event changes the drill level by at most one.
C36_NavigationReachability ==
    [][/\ NavFiltersWellFormed /\ NavFiltersWellFormed'
       /\ DrillDepth(NavLevel(bar')) - DrillDepth(NavLevel(bar)) \in {-1, 0, 1}]_vars

\* C36 amended: as C36, but "at most one" is said of segment clicks and
\* "back" only; "Show All Types" yields the overview from either level, and
\* no event leads from the overview to the list.
C36_NavigationReachabilityAmended ==
    [][/\ NavFiltersWellFormed /\ NavFiltersWellFormed'
       /\ barEvent'[1] \in {"rect", "back"} =>
            DrillDepth(NavLevel(bar')) - DrillDepth(NavLevel(bar)) \in {-1, 0, 1}
       /\ barEvent'[1] = "showAll" => NavLevel(bar') = <<"Overview">>
       /\ NavLevel(bar) = <<"Overview">> => NavLevel(bar')[1] # "DetailList"]_vars

\* C36 witness: the list was reached from the overview by two segment clicks
\* and left by "back": the chart shows the primary type's view.
C36_Witness ==
    /\ barEvent[1] = "back"
    /\ NavLevel(bar)[1] = "PrimaryFiltered"
    /\ bar.rects # {}
    /\ NavFiltersWellFormed

\* C37: when the primary filter is one no record has and the chart falls
\* back to the unfiltered aggregate, the whole view is the overview's: the
\* overview title, no "Show All Types" link, the effective filter null.
C37_FallbackIsOverviewView ==
    bar.warned =>
        /\ bar.effectiveFilterPrimaryType = Null
        /\ bar.groups = baseSortedCountsArray(data)
        /\ bar.title = OverviewTitle
        /\ "showAll" \notin bar.links

\* C37 witness: the fallback was taken and the aggregate of every primary
\* type is drawn under the title of the absent type, with the link.
C37_Witness ==
    /\ bar.warned
    /\ bar.effectiveFilterPrimaryType = Null
    /\ bar.groups = baseSortedCountsArray(data) /\ bar.groups # <<>>
    /\ bar.title = <<"Ghost", "Pokemon: Distribution by Secondary Type">>
    /\ bar.links = {"showAll"}

(***************************************************************************)
(* Modal visibility (parallelCoordinatesPlot.js)                           *)
(***************************************************************************)
\* C38: the detail modal and its overlay are visible if and only if a record
\* is selected, in every state reached by path clicks, Close, checkbox
\* changes and the settling of image lookups, in any order.
C38_ModalVisibleIffFocused ==
    /\ pokemonInfoWrapper.display \in {"block", "none"}
    /\ overlay \in {"block", "none"}
    /\ pokemonInfoWrapper.display = "block" <=> selectedPokemon # <<>>
    /\ overlay = "block" <=> selectedPokemon # <<>>

\* C38 witness: a lookup settled after the selection it was sent for had been
\* cleared; nothing is selected and the modal and overlay are hidden.
C38_Witness ==
    /\ pcpEvent = "settle"
    /\ selectedPokemon = <<>>
    /\ pokemonInfoWrapper.display = "none"
    /\ overlay = "none"

(***************************************************************************)
(* Aggregation claims (stackedBarChart.js)                                 *)
(***************************************************************************)
RECURSIVE SumOfCounts(_, _)
\* the sum of a group's counts over the secondary types of the sequence secs
SumOfCounts(group, secs) ==
    IF secs = <<>> THEN 0
    ELSE group.counts[secs[1]] + SumOfCounts(group, SubSeq(secs, 2, Len(secs)))

\* the secondary-type domain holds every Type_2 of the data, each once
SecondaryDomainExact ==
    LET secs == allSecondaryTypes(data)
    IN /\ Range(secs) = {data[i].Type_2 : i \in 1..Len(data)}
       /\ \A i, j \in 1..Len(secs) : secs[i] = secs[j] => i = j

\* C39: for every group of the aggregate, the counts per secondary type,
\* summed over the whole secondary-type domain, equal the group's total; the
\* domain holds every secondary type of the data exactly once.
C39_CountsSumToTotal ==
    LET groups == baseSortedCountsArray(data)
        secs == allSecondaryTypes(data)
    IN /\ \A i \in 1..Len(groups) :
             /\ DOMAIN groups[i].counts = Range(secs)
             /\ SumOfCounts(groups[i], secs) = groups[i].total
       /\ SecondaryDomainExact
       /\ NavLevel(bar)[1] = "PrimaryFiltered" =>
             SumOfCounts(bar.groups[1], bar.legend) = bar.groups[1].total

\* C39 witness: a group of two records, one of them of the secondary type
\* "total", is displayed after a segment click; its counts add up to three.
C39_Witness ==
    /\ barEvent[1] = "rect"
    /\ NavLevel(bar)[1] = "PrimaryFiltered"
    /\ SecondaryDomainExact
    /\ bar.groups[1].total = 2
    /\ TotalKey \in Range(bar.legend)
    /\ SumOfCounts(bar.groups[1], bar.legend) = 3

\* C39 holds for every dataset none of whose secondary types is "total"
C39_CountsSumToTotalOfPlainKeys ==
    (\A i \in 1..Len(data) : data[i].Type_2 # TotalKey) => C39_CountsSumToTotal

(***************************************************************************)
(* Static ridgeline zoom (part_000)                                        *)
(***************************************************************************)
\* the ridges that are displayed
DisplayedRidges == {i \in 1..Len(ridgeGroups) : ridgeGroups[i].display = "inline"}

\* every ridge displayed, the link not shown, the categorical axis
StaticOverview ==
    /\ DisplayedRidges = 1..Len(ridgeGroups)
    /\ showAllLink # "inline"
    /\ yAxis = GenerationAxis

\* ridge i alone displayed, the link shown, the density axis
StaticZoomed(i) ==
    /\ DisplayedRidges = {i}
    /\ showAllLink = "inline"
    /\ yAxis.label = "Number of Pokemon"

\* C40: after any sequence of ridge clicks, double clicks and "Show All
\* Plots" clicks the plot is either the overview (every ridge displayed, the
\* link hidden) or zoomed (the ridge clicked last alone displayed, the link
\* visible); a double click or "Show All Plots" in either state yields the
\* overview.
C40_StaticZoom ==
    /\ \/ StaticOverview
       \/ \E i \in 1..Len(ridgeGroups) : StaticZoomed(i)
    /\ staticEvent[1] = "click" => StaticZoomed(staticEvent[2])
    /\ staticEvent[1] \in {"create", "dblclick", "showAll"} => StaticOverview

\* C40 witness: the second of two ridges was clicked and is alone displayed.
C40_Witness ==
    /\ staticEvent = <<"click", 2>>
    /\ Len(ridgeGroups) = 2
    /\ StaticZoomed(2)
    /\ ridgeGroups[1].display = "none"

====
